---- MODULE Spec2Model ----
(***************************************************************************)
(* Model of the persistence, sound-library and key-binding core of         *)
(* noisy_keyboard (src/core/config_manager.py, src/core/key_binding.py,    *)
(* src/main.py).                                                           *)
(*                                                                         *)
(* Python strings are modelled as sequences of one-character strings, so   *)
(* that lower(), strip(), startswith(), replace(), isdigit(), endswith()   *)
(* and Path.name are computed character by character.                      *)
(***************************************************************************)
EXTENDS Integers, Sequences, FiniteSets, TLC

\* ---------------------------------------------------------------- strings

\* str.lower() on one character (ASCII letters)
LowerChar(c) ==
  CASE c = "A" -> "a" [] c = "B" -> "b" [] c = "C" -> "c" [] c = "D" -> "d"
    [] c = "E" -> "e" [] c = "F" -> "f" [] c = "G" -> "g" [] c = "H" -> "h"
    [] c = "I" -> "i" [] c = "J" -> "j" [] c = "K" -> "k" [] c = "L" -> "l"
    [] c = "M" -> "m" [] c = "N" -> "n" [] c = "O" -> "o" [] c = "P" -> "p"
    [] c = "Q" -> "q" [] c = "R" -> "r" [] c = "S" -> "s" [] c = "T" -> "t"
    [] c = "U" -> "u" [] c = "V" -> "v" [] c = "W" -> "w" [] c = "X" -> "x"
    [] c = "Y" -> "y" [] c = "Z" -> "z" [] OTHER -> c

\* str.lower()
Lower(s) == [i \in 1..Len(s) |-> LowerChar(s[i])]

\* the characters str.strip() removes
Whitespace == {" ", "\t", "\n", "\r"}

RECURSIVE LStrip(_)
LStrip(s) == IF s # <<>> /\ Head(s) \in Whitespace THEN LStrip(Tail(s)) ELSE s

RECURSIVE RStrip(_)
RStrip(s) ==
  IF s # <<>> /\ s[Len(s)] \in Whitespace THEN RStrip(SubSeq(s, 1, Len(s) - 1)) ELSE s

\* str.strip()
Strip(s) == RStrip(LStrip(s))

\* str.startswith(p)
StartsWith(s, p) == Len(s) >= Len(p) /\ SubSeq(s, 1, Len(p)) = p

\* str.endswith(p)
EndsWith(s, p) == Len(s) >= Len(p) /\ SubSeq(s, Len(s) - Len(p) + 1, Len(s)) = p

\* str.replace(old, new): every non-overlapping occurrence, left to right
RECURSIVE Replace(_, _, _)
Replace(s, old, new) ==
  IF s = <<>> THEN <<>>
  ELSE IF StartsWith(s, old)
       THEN new \o Replace(SubSeq(s, Len(old) + 1, Len(s)), old, new)
       ELSE <<Head(s)>> \o Replace(Tail(s), old, new)

Digits == {"0", "1", "2", "3", "4", "5", "6", "7", "8", "9"}

\* str.isdigit() (ASCII digits): non-empty and all digits
IsDigit(s) == s # <<>> /\ \A i \in 1..Len(s) : s[i] \in Digits

DigitVal(c) ==
  CASE c = "0" -> 0 [] c = "1" -> 1 [] c = "2" -> 2 [] c = "3" -> 3 [] c = "4" -> 4
    [] c = "5" -> 5 [] c = "6" -> 6 [] c = "7" -> 7 [] c = "8" -> 8 [] c = "9" -> 9

\* int(s) for a string of digits
RECURSIVE StrToInt(_)
StrToInt(s) ==
  IF s = <<>> THEN 0 ELSE 10 * StrToInt(SubSeq(s, 1, Len(s) - 1)) + DigitVal(s[Len(s)])

\* os.path.basename / Path.name: the part after the last "/"
RECURSIVE Basename(_)
Basename(p) ==
  IF \E i \in 1..Len(p) : p[i] = "/"
  THEN Basename(SubSeq(p, (CHOOSE i \in 1..Len(p) : p[i] = "/") + 1, Len(p)))
  ELSE p

Range(s) == {s[i] : i \in 1..Len(s)}

\* ------------------------------------------------------- key vocabulary

\* KeyBindingManager.default_sound_id
default_sound_id == <<"d", "e", "f", "a", "u", "l", "t", "_", "s", "o", "u", "n", "d", "_", "0", "0", "1">>

\* the literal returned for an empty key
Unknown == <<"u", "n", "k", "n", "o", "w", "n">>

\* the character U+0060, which a string of this language cannot hold
Backtick == "backtick"

\* string.ascii_lowercase
letter_keys ==
  << <<"a">>,
     <<"b">>,
     <<"c">>,
     <<"d">>,
     <<"e">>,
     <<"f">>,
     <<"g">>,
     <<"h">>,
     <<"i">>,
     <<"j">>,
     <<"k">>,
     <<"l">>,
     <<"m">>,
     <<"n">>,
     <<"o">>,
     <<"p">>,
     <<"q">>,
     <<"r">>,
     <<"s">>,
     <<"t">>,
     <<"u">>,
     <<"v">>,
     <<"w">>,
     <<"x">>,
     <<"y">>,
     <<"z">> >>

\* str(i) for i in range(10)
digit_keys ==
  << <<"0">>,
     <<"1">>,
     <<"2">>,
     <<"3">>,
     <<"4">>,
     <<"5">>,
     <<"6">>,
     <<"7">>,
     <<"8">>,
     <<"9">> >>

\* f1 .. f12
function_keys ==
  << <<"f", "1">>,
     <<"f", "2">>,
     <<"f", "3">>,
     <<"f", "4">>,
     <<"f", "5">>,
     <<"f", "6">>,
     <<"f", "7">>,
     <<"f", "8">>,
     <<"f", "9">>,
     <<"f", "1", "0">>,
     <<"f", "1", "1">>,
     <<"f", "1", "2">> >>

\* the special keys
special_keys ==
  << <<"s", "p", "a", "c", "e">>,
     <<"e", "n", "t", "e", "r">>,
     <<"b", "a", "c", "k", "s", "p", "a", "c", "e">>,
     <<"t", "a", "b">>,
     <<"e", "s", "c", "a", "p", "e">>,
     <<"s", "h", "i", "f", "t">>,
     <<"c", "t", "r", "l">>,
     <<"a", "l", "t">>,
     <<"c", "m", "d">>,
     <<"c", "a", "p", "s", "_", "l", "o", "c", "k">>,
     <<"l", "e", "f", "t">>,
     <<"r", "i", "g", "h", "t">>,
     <<"u", "p">>,
     <<"d", "o", "w", "n">>,
     <<"h", "o", "m", "e">>,
     <<"e", "n", "d">>,
     <<"p", "a", "g", "e", "_", "u", "p">>,
     <<"p", "a", "g", "e", "_", "d", "o", "w", "n">>,
     <<"i", "n", "s", "e", "r", "t">>,
     <<"d", "e", "l", "e", "t", "e">>,
     <<"p", "r", "i", "n", "t", "_", "s", "c", "r", "e", "e", "n">>,
     <<"s", "c", "r", "o", "l", "l", "_", "l", "o", "c", "k">>,
     <<"p", "a", "u", "s", "e">>,
     <<"n", "u", "m", "_", "l", "o", "c", "k">>,
     <<"n", "u", "m", "_", "0">>,
     <<"n", "u", "m", "_", "1">>,
     <<"n", "u", "m", "_", "2">>,
     <<"n", "u", "m", "_", "3">>,
     <<"n", "u", "m", "_", "4">>,
     <<"n", "u", "m", "_", "5">>,
     <<"n", "u", "m", "_", "6">>,
     <<"n", "u", "m", "_", "7">>,
     <<"n", "u", "m", "_", "8">>,
     <<"n", "u", "m", "_", "9">>,
     <<"n", "u", "m", "_", "a", "d", "d">>,
     <<"n", "u", "m", "_", "s", "u", "b", "t", "r", "a", "c", "t">>,
     <<"n", "u", "m", "_", "m", "u", "l", "t", "i", "p", "l", "y">>,
     <<"n", "u", "m", "_", "d", "i", "v", "i", "d", "e">>,
     <<"n", "u", "m", "_", "d", "e", "c", "i", "m", "a", "l">>,
     <<Backtick>>,
     <<"-">>,
     <<"=">>,
     <<"[">>,
     <<"]">>,
     <<"\\">>,
     <<";">>,
     <<"'">>,
     <<",">>,
     <<".">>,
     <<"/">> >>

\* KeyBindingManager._get_standard_keys: the list, in order
standard_keys == letter_keys \o digit_keys \o function_keys \o special_keys

StandardKeySet == Range(standard_keys)

\* the alias table of _normalize_key, as <<spelling, canonical name>> pairs
key_mapping ==
  { <<<<" ">>, <<"s", "p", "a", "c", "e">>>>,
    <<<<"s", "p", "a", "c", "e", "_", "b", "a", "r">>, <<"s", "p", "a", "c", "e">>>>,
    <<<<"r", "e", "t", "u", "r", "n">>, <<"e", "n", "t", "e", "r">>>>,
    <<<<"b", "a", "c", "k", "_", "s", "p", "a", "c", "e">>, <<"b", "a", "c", "k", "s", "p", "a", "c", "e">>>>,
    <<<<"d", "e", "l">>, <<"d", "e", "l", "e", "t", "e">>>>,
    <<<<"e", "s", "c">>, <<"e", "s", "c", "a", "p", "e">>>>,
    <<<<"c", "o", "m", "m", "a", "n", "d">>, <<"c", "m", "d">>>>,
    <<<<"w", "i", "n", "d", "o", "w", "s">>, <<"c", "m", "d">>>>,
    <<<<"w", "i", "n">>, <<"c", "m", "d">>>>,
    <<<<"o", "p", "t", "i", "o", "n">>, <<"a", "l", "t">>>>,
    <<<<"c", "a", "p", "s", "l", "o", "c", "k">>, <<"c", "a", "p", "s", "_", "l", "o", "c", "k">>>>,
    <<<<"c", "a", "p", "s">>, <<"c", "a", "p", "s", "_", "l", "o", "c", "k">>>>,
    <<<<"p", "g", "u", "p">>, <<"p", "a", "g", "e", "_", "u", "p">>>>,
    <<<<"p", "g", "d", "n">>, <<"p", "a", "g", "e", "_", "d", "o", "w", "n">>>>,
    <<<<"s", "c", "r", "o", "l", "l", "l", "o", "c", "k">>, <<"s", "c", "r", "o", "l", "l", "_", "l", "o", "c", "k">>>>,
    <<<<"s", "c", "r", "o", "l", "l">>, <<"s", "c", "r", "o", "l", "l", "_", "l", "o", "c", "k">>>>,
    <<<<"p", "r", "t", "s", "c">>, <<"p", "r", "i", "n", "t", "_", "s", "c", "r", "e", "e", "n">>>>,
    <<<<"p", "r", "t", "s", "c", "r">>, <<"p", "r", "i", "n", "t", "_", "s", "c", "r", "e", "e", "n">>>>,
    <<<<"s", "n", "a", "p", "s", "h", "o", "t">>, <<"p", "r", "i", "n", "t", "_", "s", "c", "r", "e", "e", "n">>>> }

KeyMappingKeys == {e[1] : e \in key_mapping}

KeyMappingGet(k) == (CHOOSE e \in key_mapping : e[1] = k)[2]

NumpadPrefix == <<"n", "u", "m", "p", "a", "d", "_">>
NumPrefix == <<"n", "u", "m", "_">>

NumpadOperators ==
  { <<"a", "d", "d">>,
    <<"s", "u", "b", "t", "r", "a", "c", "t">>,
    <<"m", "u", "l", "t", "i", "p", "l", "y">>,
    <<"d", "i", "v", "i", "d", "e">>,
    <<"d", "e", "c", "i", "m", "a", "l">> }

\* KeyBindingManager._normalize_key
normalize_key(key) ==
  IF key = <<>> THEN Unknown
  ELSE
    LET k == Strip(Lower(key))
        num_key == Replace(Replace(k, NumpadPrefix, <<>>), NumPrefix, <<>>)
    IN  IF k \in KeyMappingKeys THEN KeyMappingGet(k)
        ELSE IF (StartsWith(k, NumpadPrefix) \/ StartsWith(k, NumPrefix))
                /\ (IsDigit(num_key) \/ num_key \in NumpadOperators)
             THEN NumPrefix \o num_key
        ELSE IF StartsWith(k, <<"f">>) /\ IsDigit(Tail(k))
                /\ StrToInt(Tail(k)) >= 1 /\ StrToInt(Tail(k)) <= 12
             THEN k
        ELSE k

\* ------------------------------------------------------------ file system

\* str(self.sounds_dir / "default_sound_001.mp3"); the per-user sounds
\* directory ~/.noisy_keyboard/sounds is written /s
SoundsDefaultFile == <<"/", "s", "/", "d", "e", "f", "a", "u", "l", "t", "_", "s", "o", "u", "n", "d", "_", "0", "0", "1", ".", "m", "p", "3">>

\* Path(__file__).parent.parent / "resource" / "space-animal-104986.mp3";
\* the installation's resource directory is written /r
ConfigResourceFile == <<"/", "r", "/", "s", "p", "a", "c", "e", "-", "a", "n", "i", "m", "a", "l", "-", "1", "0", "4", "9", "8", "6", ".", "m", "p", "3">>

\* create_default_sound: Path("resources/space-animal-104986.mp3")
MainResourceFile == <<"r", "e", "s", "o", "u", "r", "c", "e", "s", "/", "s", "p", "a", "c", "e", "-", "a", "n", "i", "m", "a", "l", "-", "1", "0", "4", "9", "8", "6", ".", "m", "p", "3">>

\* create_default_sound: the hard-coded user path
UserResourceFile == <<"/", "U", "s", "e", "r", "s", "/", "b", "y", "t", "e", "d", "a", "n", "c", "e", "/", "C", "o", "d", "e", "/", "P", "y", "t", "h", "o", "n", "/", "n", "o", "i", "s", "y", "_", "k", "e", "y", "b", "o", "a", "r", "d", "/", "r", "e", "s", "o", "u", "r", "c", "e", "/", "s", "p", "a", "c", "e", "-", "a", "n", "i", "m", "a", "l", "-", "1", "0", "4", "9", "8", "6", ".", "m", "p", "3">>

\* the name remove_sound_from_library never unlinks
ProtectedName == <<"s", "p", "a", "c", "e", "-", "a", "n", "i", "m", "a", "l", "-", "1", "0", "4", "9", "8", "6", ".", "m", "p", "3">>

\* files a user can point the application at
UserMp3 == <<"/", "u", "/", "a", ".", "m", "p", "3">>
UserUpperMp3 == <<"/", "u", "/", "B", ".", "M", "P", "3">>
UserWav == <<"/", "u", "/", "c", ".", "w", "a", "v">>
UserMissing == <<"/", "u", "/", "g", "o", "n", "e", ".", "m", "p", "3">>

UserFiles == {UserMp3, UserUpperMp3, UserWav}

ResourceFiles == {ConfigResourceFile, MainResourceFile, UserResourceFile}

Mp3Suffix == <<".", "m", "p", "3">>

\* os.path.getsize: sizes are data of the environment, one size per path
FileSize(p) == Len(p)

\* the fixed upload_time of the default sounds, and datetime.now()
DefaultUploadTime == "2024-01-01 12:00:00"
Now == "now"

DefaultFilename == <<"d", "e", "f", "a", "u", "l", "t", "_", "s", "o", "u", "n", "d", "_", "0", "0", "1", ".", "m", "p", "3">>

\* ------------------------------------------------------------ Python dicts

\* A dict that the code iterates (key_bindings, the name-to-path map of
\* get_sound_library) is a sequence of <<key, value>> pairs in insertion order.
DictHas(d, k) == \E i \in 1..Len(d) : d[i][1] = k

DictIndex(d, k) == CHOOSE i \in 1..Len(d) : d[i][1] = k

\* d[k]
DictGet(d, k) == d[DictIndex(d, k)][2]

\* d[k] = v: an existing key keeps its position, a new key goes last
DictSet(d, k, v) ==
  IF DictHas(d, k) THEN [d EXCEPT ![DictIndex(d, k)] = <<k, v>>] ELSE Append(d, <<k, v>>)

DictEntryIsNot(e, k) == e[1] # k

\* del d[k]
DictDel(d, k) == SelectSeq(d, LAMBDA e : DictEntryIsNot(e, k))

DictKeys(d) == {d[i][1] : i \in 1..Len(d)}

\* None and the empty string: the two falsy values of a sound path
NoSound == <<>>

\* -------------------------------------------------------------- JSON text

\* Settings values: Python scalars, tagged with their type. A float is kept
\* in tenths (n = 8 is 0.8), an int as itself.
PyBool(b) == [t |-> "bool", b |-> b]
PyInt(n) == [t |-> "int", n |-> n]
PyFloat(n) == [t |-> "float", n |-> n]
PyStr(s) == [t |-> "str", s |-> s]
PyNone == [t |-> "none"]

DigitChar(n) ==
  CASE n = 0 -> "0" [] n = 1 -> "1" [] n = 2 -> "2" [] n = 3 -> "3" [] n = 4 -> "4"
    [] n = 5 -> "5" [] n = 6 -> "6" [] n = 7 -> "7" [] n = 8 -> "8" [] n = 9 -> "9"

RECURSIVE NatToStr(_)
NatToStr(n) == IF n < 10 THEN <<DigitChar(n)>> ELSE NatToStr(n \div 10) \o <<DigitChar(n % 10)>>

\* str(int)
IntToStr(n) == IF n < 0 THEN <<"-">> \o NatToStr(0 - n) ELSE NatToStr(n)

\* the escapes json.dump writes inside a string (ensure_ascii=False)
RECURSIVE JsonEscape(_)
JsonEscape(s) ==
  IF s = <<>> THEN <<>>
  ELSE LET c == Head(s)
           e == CASE c = "\"" -> <<"\\", "\"">>
                  [] c = "\\" -> <<"\\", "\\">>
                  [] c = "\n" -> <<"\\", "n">>
                  [] c = "\t" -> <<"\\", "t">>
                  [] c = "\r" -> <<"\\", "r">>
                  [] OTHER -> <<c>>
       IN  e \o JsonEscape(Tail(s))

\* the inverse read by json.load
RECURSIVE JsonUnescape(_)
JsonUnescape(s) ==
  IF s = <<>> THEN <<>>
  ELSE IF Head(s) = "\\" /\ Len(s) >= 2
       THEN LET c == s[2]
                d == CASE c = "n" -> "\n" [] c = "t" -> "\t" [] c = "r" -> "\r" [] OTHER -> c
            IN  <<d>> \o JsonUnescape(SubSeq(s, 3, Len(s)))
       ELSE <<Head(s)>> \o JsonUnescape(Tail(s))

JsonTrue == <<"t", "r", "u", "e">>
JsonFalse == <<"f", "a", "l", "s", "e">>
JsonNull == <<"n", "u", "l", "l">>

\* json.dump of one scalar, a string written between quotes as it is
json_dumps_unescaped(v) ==
  CASE v.t = "bool" -> IF v.b THEN JsonTrue ELSE JsonFalse
    [] v.t = "none" -> JsonNull
    [] v.t = "int" -> IntToStr(v.n)
    [] v.t = "float" -> IntToStr(v.n \div 10) \o <<".">> \o <<DigitChar(v.n % 10)>>
    [] v.t = "str" -> <<"\"">> \o v.s \o <<"\"">>


\* json.dump of one scalar: its JSON text
json_dumps(v) ==
  CASE v.t = "bool" -> IF v.b THEN JsonTrue ELSE JsonFalse
    [] v.t = "none" -> JsonNull
    [] v.t = "int" -> IntToStr(v.n)
    [] v.t = "float" -> IntToStr(v.n \div 10) \o <<".">> \o <<DigitChar(v.n % 10)>>
    [] v.t = "str" -> <<"\"">> \o JsonEscape(v.s) \o <<"\"">>

DotIndex(x) == CHOOSE i \in 1..Len(x) : x[i] = "."

\* int(text) with an optional sign
ParseInt(x) == IF Head(x) = "-" THEN 0 - StrToInt(Tail(x)) ELSE StrToInt(x)

\* json.load of one scalar's JSON text
json_loads(x) ==
  IF Head(x) = "\"" THEN PyStr(JsonUnescape(SubSeq(x, 2, Len(x) - 1)))
  ELSE IF x = JsonTrue THEN PyBool(TRUE)
  ELSE IF x = JsonFalse THEN PyBool(FALSE)
  ELSE IF x = JsonNull THEN PyNone
  ELSE IF \E i \in 1..Len(x) : x[i] = "."
       THEN PyFloat(10 * ParseInt(SubSeq(x, 1, DotIndex(x) - 1))
                    + StrToInt(SubSeq(x, DotIndex(x) + 1, Len(x))))
  ELSE PyInt(ParseInt(x))

\* json.dump(settings): every value as JSON text, under its option name
json_dump_settings(m) == [k \in DOMAIN m |-> json_dumps(m[k])]

\* json.load of settings.json
json_load_settings(doc) == [k \in DOMAIN doc |-> json_loads(doc[k])]

\* ------------------------------------------------------------------ bounds

\* application starts explored
MaxStarts == 2

\* operations explored over all the runs
MaxOps == 2

\* ------------------------------------------------------------------- state

VARIABLES
  pc,                  \* "off", then main()'s position: "config", "default", "bindings", "running"
  starts,              \* application starts so far
  steps,               \* operations so far
  files,               \* the files that exist on disk
  settings_file,       \* settings.json: <<>> when missing, else <<document>>
  key_bindings_file,   \* key_bindings.json, likewise
  sound_library_file,  \* sound_library.json, likewise
  settings,            \* ConfigManager.settings
  key_bindings,        \* ConfigManager.key_bindings, in insertion order
  sound_library,       \* ConfigManager.sound_library
  default_sound_path,  \* main()'s local default_sound_path: <<>> for None, else <<path>>
  last,                \* the last operation, its arguments and its return value
  disk,                \* what a write to the configuration directory meets: "ok", "readonly", "full"
  listener_enabled,    \* KeyboardListener.enabled
  is_playing,          \* SoundManager.is_playing
  calls,               \* the calls of SoundManager.play_sound, in the order they were made
  is_listening,        \* KeyboardListener.is_listening
  listener,            \* KeyboardListener.listener: "None" or the state of the Listener held
  hooks                \* keyboard hooks of this process that are active

vars ==
  <<pc, starts, steps, files, settings_file, key_bindings_file, sound_library_file,
    settings, key_bindings, sound_library, default_sound_path, last,
    disk, listener_enabled, is_playing, calls, is_listening, listener, hooks>>

\* the keyboard hook held by the listener
hook == <<is_listening, listener, hooks>>

\* the state of the keyboard listener and of the sound manager
audio == <<listener_enabled, is_playing, calls, hook>>

\* --------------------------------------------------------- ConfigManager

\* ConfigManager.default_settings
default_settings ==
  [enabled |-> PyBool(TRUE), volume |-> PyInt(80),
   minimize_to_tray |-> PyBool(TRUE), auto_start |-> PyBool(FALSE)]

\* A file of the configuration directory is <<>> when it does not exist and
\* <<document>> when it holds a JSON document; a file that cannot be loaded is
\* the pair of what is wrong with it and the exception json.load(f) or open()
\* raises on it.
MalformedFile == <<"malformed JSON", "JSONDecodeError">>
UndecodableFile == <<"bytes that are not UTF-8", "UnicodeDecodeError">>
UnreadableFile == <<"no permission to read", "IOError">>

DamagedFiles == {MalformedFile, UndecodableFile, UnreadableFile}

\* the exception loading the file raises, "none" if it loads or does not exist
LoadError(file) == IF Len(file) = 2 THEN file[2] ELSE "none"

\* load_config: except (json.JSONDecodeError, IOError)
CaughtOnLoad == {"JSONDecodeError", "IOError"}

\* whether load_config lets an exception out
load_raises(file) == LoadError(file) \notin CaughtOnLoad \cup {"none"}

\* ConfigManager.load_config, when it returns: the parsed document, or the
\* default when the file does not exist or the exception is caught
load_config(file, default_config) == IF Len(file) = 1 THEN file[1] ELSE default_config

\* ConfigManager.load_config of settings.json, whose text is modelled
load_settings(file, default_config) ==
  IF Len(file) = 1 THEN json_load_settings(file[1]) ELSE default_config

\* ---------------------------------------------------- persistence claims

\* save_config leaving the file as it is
save_config_skipped(file, config) == file


\* ConfigManager._save_config_file: the file after the call. On a read-only
\* directory open() raises IOError and the file stays; on a full disk open()
\* has truncated the file when json.dump raises IOError. Both are caught.
save_config(file, config) ==
  CASE disk = "ok" -> <<config>>
    [] disk = "readonly" -> file
    [] disk = "full" -> MalformedFile

\* sound.get("is_custom_path", False)
IsCustomPath(sound) ==
  IF "is_custom_path" \in DOMAIN sound THEN sound.is_custom_path ELSE FALSE

\* the descriptor _create_default_sounds appends (it has no is_custom_path)
CreatedDefaultSound ==
  [id |-> default_sound_id, filename |-> DefaultFilename, path |-> SoundsDefaultFile,
   size |-> FileSize(SoundsDefaultFile), upload_time |-> DefaultUploadTime]

\* the descriptor main() builds for default_sound_path
MainDefaultSound(path) ==
  [id |-> default_sound_id, filename |-> ProtectedName, path |-> path,
   size |-> FileSize(path), upload_time |-> DefaultUploadTime]

\* add_sound_to_library: the descriptor as appended
WithCustomFlag(sound_info) ==
  IF "is_custom_path" \in DOMAIN sound_info THEN sound_info
  ELSE [k \in DOMAIN sound_info \cup {"is_custom_path"} |->
          IF k = "is_custom_path" THEN FALSE ELSE sound_info[k]]

\* the descriptor add_custom_sound_path and get_sound_info build for a path
PathSound(file_path) ==
  [id |-> file_path, filename |-> Basename(file_path), path |-> file_path,
   size |-> FileSize(file_path), upload_time |-> Now, is_custom_path |-> TRUE]

\* get_sound_info looking into the library only
get_sound_info_stored(lib, fs, sound_path) ==
  IF \E i \in 1..Len(lib) : lib[i].path = sound_path
  THEN <<lib[CHOOSE i \in 1..Len(lib) : lib[i].path = sound_path]>>
  ELSE <<>>


\* ConfigManager.get_sound_info: <<>> for None, else <<descriptor>>
get_sound_info(lib, fs, sound_path) ==
  IF \E i \in 1..Len(lib) : lib[i].path = sound_path
  THEN <<lib[CHOOSE i \in 1..Len(lib) :
               /\ lib[i].path = sound_path
               /\ \A j \in 1..(i - 1) : lib[j].path # sound_path]>>
  ELSE IF sound_path # <<>> /\ sound_path \in fs THEN <<PathSound(sound_path)>>
  ELSE <<>>

\* the marker get_sound_library puts before a custom entry's name (U+1F4C1
\* and a space)
FolderMarker == <<"[folder]", " ">>

\* ConfigManager.get_sound_library: the name-to-path dict, built in list order
RECURSIVE SoundLibraryMap(_, _, _)
SoundLibraryMap(lib, fs, library) ==
  IF lib = <<>> THEN library
  ELSE LET sound == Head(lib)
           name == IF IsCustomPath(sound) THEN FolderMarker \o sound.filename
                   ELSE sound.filename
       IN  SoundLibraryMap(Tail(lib), fs,
             IF sound.filename # <<>> /\ sound.path # <<>> /\ sound.path \in fs
             THEN DictSet(library, name, sound.path) ELSE library)

get_sound_library(lib, fs) == SoundLibraryMap(lib, fs, <<>>)

\* set_key_sound storing a sound only for a key that has none yet
config_set_key_sound_setdefault(kb, key, sound_path) ==
  IF sound_path # NoSound THEN (IF DictHas(kb, key) THEN kb ELSE Append(kb, <<key, sound_path>>))
  ELSE IF DictHas(kb, key) THEN DictDel(kb, key) ELSE kb


\* ConfigManager.set_key_sound, on the dict
config_set_key_sound(kb, key, sound_path) ==
  IF sound_path # NoSound THEN DictSet(kb, key, sound_path)
  ELSE IF DictHas(kb, key) THEN DictDel(kb, key) ELSE kb

\* ConfigManager.get_key_binding: <<>> for None
get_key_binding(kb, key) == IF DictHas(kb, key) THEN DictGet(kb, key) ELSE NoSound

\* the loop changing only the keys the dict already holds
SetEachKey_existing_only(kb, keys, sound_path) ==
  [i \in 1..Len(kb) |->
     IF kb[i][1] \in Range(keys) THEN <<kb[i][1], sound_path>> ELSE kb[i]]

\* the loop adding the keys the dict does not hold and leaving the others
SetEachKey_new_only(kb, keys, sound_path) ==
  LET new_keys == SelectSeq(keys, LAMBDA k : k \notin DictKeys(kb))
  IN  kb \o [i \in 1..Len(new_keys) |-> <<new_keys[i], sound_path>>]


\* for key in keys: config_manager.set_key_sound(key, sound_path)
\* for distinct keys, as every caller's are. The loop's result: a key of the
\* dict keeps its position and takes the value, the other keys are appended in
\* the order of the list; with no sound path the keys are deleted.
SetEachKey(kb, keys, sound_path) ==
  LET key_set == Range(keys)
      old_keys == DictKeys(kb)
  IN  IF sound_path # NoSound
      THEN LET new_keys == SelectSeq(keys, LAMBDA k : k \notin old_keys)
           IN  [i \in 1..Len(kb) |->
                  IF kb[i][1] \in key_set THEN <<kb[i][1], sound_path>> ELSE kb[i]]
               \o [i \in 1..Len(new_keys) |-> <<new_keys[i], sound_path>>]
      ELSE SelectSeq(kb, LAMBDA e : e[1] \notin key_set)

\* ------------------------------------------------------ KeyBindingManager

\* get_key_sound without the fallback to the default sound
get_key_sound_no_fallback(kb, key) == get_key_binding(kb, normalize_key(key))


\* KeyBindingManager.get_key_sound
get_key_sound(kb, key) ==
  LET sound_id == get_key_binding(kb, normalize_key(key))
  IN  IF sound_id = NoSound THEN default_sound_id ELSE sound_id

\* initialize_key_bindings binding the keys to the first sound's name, not to
\* its path
initialize_key_bindings_by_name(kb, lib, fs) ==
  IF kb # <<>> THEN kb
  ELSE LET sounds == get_sound_library(lib, fs)
       IN  IF sounds = <<>> THEN kb
           ELSE SetEachKey(kb, standard_keys, sounds[1][1])


\* KeyBindingManager.initialize_key_bindings, on the dict
initialize_key_bindings(kb, lib, fs) ==
  IF kb # <<>> THEN kb
  ELSE LET sounds == get_sound_library(lib, fs)
       IN  IF sounds = <<>> THEN kb
           ELSE SetEachKey(kb, standard_keys, sounds[1][2])

\* a sequence with its elements computed once
Computed(s) == SubSeq(s, 1, Len(s))

\* the n-th smallest member of a set of numbers
NthSmallest(S, n) == CHOOSE i \in S : Cardinality({j \in S : j <= i}) = n

\* main(): for key_name, sound_path in key_bindings.items():
\*             key_binding_manager.set_key_sound(key_name, sound_path)
\* for items with a sound path each, as the entries of key_bindings have. The
\* loop's result: a key of the dict keeps its position and takes the value of
\* the last item that normalizes to it; a normalized name that is no key of
\* the dict is appended where the loop first meets it.
LoadBindings(kb, items) ==
  LET names == Computed([j \in 1..Len(items) |-> normalize_key(items[j][1])])
      writers(x) == {j \in 1..Len(items) : names[j] = x}
      last_value(x, old) ==
        IF writers(x) = {} THEN old
        ELSE items[CHOOSE j \in writers(x) : \A m \in writers(x) : m <= j][2]
      first_new == {j \in 1..Len(items) :
                      /\ ~DictHas(kb, names[j])
                      /\ \A m \in 1..(j - 1) : names[m] # names[j]}
  IN  [i \in 1..Len(kb) |-> <<kb[i][1], last_value(kb[i][1], kb[i][2])>>]
      \o [n \in 1..Cardinality(first_new) |->
            <<names[NthSmallest(first_new, n)],
              last_value(names[NthSmallest(first_new, n)], NoSound)>>]

\* main(): common_keys
common_keys ==
  << <<"s", "p", "a", "c", "e">>,
     <<"e", "n", "t", "e", "r">>,
     <<"b", "a", "c", "k", "s", "p", "a", "c", "e">>,
     <<"t", "a", "b">>,
     <<"a">>,
     <<"s">>,
     <<"d">>,
     <<"w">> >>

\* ----------------------------------------------------------------- inputs

\* raw key spellings handed to set_key_sound and get_key_sound
RawKeys ==
  { <<"a">>, <<"f", "1">>, <<"A", " ">>, <<"e", "s", "c">>, <<" ">>, <<>>, <<"z", "z">> }

\* sound paths handed to set_key_sound
SoundArgs == {NoSound, UserMp3}

\* paths handed to add_custom_sound_path
CustomPathArgs == {UserMp3, UserUpperMp3, UserWav, UserMissing}

\* identifiers handed to get_sound_info
SoundIdArgs == {default_sound_id, SoundsDefaultFile, UserMp3}

\* identifiers handed to remove_sound_from_library
RemoveArgs == SoundIdArgs \cup {UserUpperMp3}

\* descriptors handed to add_sound_to_library by a caller
SoundInfoArgs ==
  { [id |-> UserMp3, filename |-> Basename(UserMp3), path |-> UserMp3,
     size |-> FileSize(UserMp3), upload_time |-> Now],
    [id |-> UserUpperMp3, filename |-> Basename(UserUpperMp3), path |-> UserUpperMp3,
     size |-> FileSize(UserUpperMp3), upload_time |-> Now, is_custom_path |-> TRUE] }

\* ------------------------------------------------------------------- Init

NoSettings == [k \in {} |-> PyNone]

\* the resource files an installation can hold
Installations ==
  { {}, {ConfigResourceFile}, {ConfigResourceFile, MainResourceFile}, {UserResourceFile} }

Init ==
  /\ pc = "off"
  /\ starts = 0
  /\ steps = 0
  /\ \E installed \in Installations : files = UserFiles \cup installed
  /\ settings_file = <<>>
  /\ key_bindings_file = <<>>
  /\ sound_library_file = <<>>
  /\ settings = NoSettings
  /\ key_bindings = <<>>
  /\ sound_library = <<>>
  /\ default_sound_path = <<>>
  /\ last = [op |-> "none"]
  /\ disk = "ok"
  /\ listener_enabled = FALSE
  /\ is_playing = FALSE
  /\ calls = <<>>
  /\ is_listening = FALSE
  /\ listener = "None"
  /\ hooks = 0

\* ---------------------------------------------------------------- startup

\* the exception ConfigManager.__init__ lets out of its three loads: "none" if
\* they all return
InitError ==
  IF load_raises(settings_file) THEN LoadError(settings_file)
  ELSE IF load_raises(key_bindings_file) THEN LoadError(key_bindings_file)
  ELSE IF load_raises(sound_library_file) THEN LoadError(sound_library_file)
  ELSE "none"

\* ConfigManager.__init__ (with _create_default_sounds); when a load raises,
\* the exception leaves main() and the process ends
ConfigInit ==
  /\ pc = "off"
  /\ starts < MaxStarts
  /\ IF InitError # "none"
     THEN /\ pc' = "off"
          /\ UNCHANGED <<files, settings_file, key_bindings_file, sound_library_file,
                         settings, key_bindings, sound_library>>
     ELSE /\ pc' = "config"
          /\ LET loaded_settings == load_settings(settings_file, default_settings)
                 loaded_library == load_config(sound_library_file, <<>>)
                 create == loaded_library = <<>> /\ ConfigResourceFile \in files
                 add_allow == "allow_custom_sound_paths" \notin DOMAIN loaded_settings
             IN  /\ key_bindings' = load_config(key_bindings_file, <<>>)
                 /\ sound_library' =
                      IF create THEN Append(loaded_library, CreatedDefaultSound)
                      ELSE loaded_library
                 /\ files' = IF create THEN files \cup {SoundsDefaultFile} ELSE files
                 /\ sound_library_file' =
                      IF create THEN save_config(sound_library_file, sound_library')
                      ELSE sound_library_file
                 /\ settings' =
                      IF add_allow
                      THEN ("allow_custom_sound_paths" :> PyBool(TRUE)) @@ loaded_settings
                      ELSE loaded_settings
                 /\ settings_file' =
                      IF add_allow
                      THEN save_config(settings_file, json_dump_settings(settings'))
                      ELSE settings_file
  /\ starts' = starts + 1
  /\ last' = [op |-> "ConfigManager", raised |-> InitError,
              loaded |-> load_settings(settings_file, default_settings)]
  /\ UNCHANGED <<steps, key_bindings_file, default_sound_path>>
  /\ UNCHANGED <<disk, audio>>

\* main.create_default_sound: <<>> for None
create_default_sound(fs) ==
  IF MainResourceFile \in fs THEN <<MainResourceFile>>
  ELSE IF UserResourceFile \in fs THEN <<UserResourceFile>>
  ELSE <<>>

\* main(): the default sound is added to the library
MainAddDefault ==
  /\ pc = "config"
  /\ default_sound_path' = create_default_sound(files)
  /\ IF default_sound_path' # <<>>
     THEN /\ sound_library' =
               Append(sound_library, WithCustomFlag(MainDefaultSound(default_sound_path'[1])))
          /\ sound_library_file' = save_config(sound_library_file, sound_library')
     ELSE UNCHANGED <<sound_library, sound_library_file>>
  /\ pc' = "default"
  /\ last' = [op |-> "main_add_default"]
  /\ UNCHANGED <<starts, steps, files, settings_file, key_bindings_file, settings, key_bindings>>
  /\ UNCHANGED <<disk, audio>>

\* KeyBindingManager.__init__
KeyBindingInit ==
  /\ pc = "default"
  /\ key_bindings' = initialize_key_bindings(key_bindings, sound_library, files)
  /\ key_bindings_file' =
       IF key_bindings' # key_bindings THEN save_config(key_bindings_file, key_bindings') ELSE key_bindings_file
  /\ pc' = "bindings"
  /\ last' = [op |-> "KeyBindingManager", before |-> key_bindings]
  /\ UNCHANGED <<starts, steps, files, settings_file, sound_library_file, settings,
                 sound_library, default_sound_path>>
  /\ UNCHANGED <<disk, audio>>

\* main(): the persisted bindings are set again, or the common keys are bound
MainLoadBindings ==
  /\ pc = "bindings"
  /\ key_bindings' =
       IF key_bindings # <<>> THEN LoadBindings(key_bindings, key_bindings)
       ELSE IF default_sound_path # <<>>
            THEN SetEachKey(key_bindings, common_keys, default_sound_path[1])
            ELSE key_bindings
  /\ key_bindings_file' =
       IF key_bindings # <<>> \/ default_sound_path # <<>>
       THEN save_config(key_bindings_file, key_bindings') ELSE key_bindings_file
  /\ pc' = "running"
  /\ last' = [op |-> "main_load_bindings"]
  /\ UNCHANGED <<starts, steps, files, settings_file, sound_library_file, settings,
                 sound_library, default_sound_path>>
  /\ UNCHANGED <<disk, audio>>

\* main(): after app.exec() returns, config_manager.save_config() saves all
\* three documents and the process exits
Quit ==
  /\ pc = "running"
  /\ settings_file' = save_config(settings_file, json_dump_settings(settings))
  /\ key_bindings_file' = save_config(key_bindings_file, key_bindings)
  /\ sound_library_file' = save_config(sound_library_file, sound_library)
  /\ pc' = "off"
  /\ settings' = NoSettings
  /\ key_bindings' = <<>>
  /\ sound_library' = <<>>
  /\ default_sound_path' = <<>>
  /\ last' = [op |-> "quit", saved |-> settings]
  /\ UNCHANGED <<starts, steps, files>>
  /\ listener_enabled' = FALSE
  /\ is_playing' = FALSE
  /\ calls' = <<>>
  /\ UNCHANGED disk
  /\ is_listening' = FALSE
  /\ listener' = "None"
  /\ hooks' = 0

\* the user deletes one of their own files
ExternalDelete(p) ==
  /\ pc \in {"off", "running"}
  /\ steps < MaxOps
  /\ p \in files
  /\ files' = files \ {p}
  /\ steps' = steps + 1
  /\ last' = [op |-> "external_delete", arg |-> p]
  /\ UNCHANGED <<pc, starts, settings_file, key_bindings_file, sound_library_file,
                 settings, key_bindings, sound_library, default_sound_path>>
  /\ UNCHANGED <<disk, audio>>

\* ------------------------------------------------- operations while running

Running == pc = "running" /\ steps < MaxOps

\* KeyBindingManager.set_key_sound(key, sound_path)
SetKeySound(key, sound_path) ==
  /\ Running
  /\ key_bindings' = config_set_key_sound(key_bindings, normalize_key(key), sound_path)
  /\ key_bindings_file' = save_config(key_bindings_file, key_bindings')
  /\ steps' = steps + 1
  /\ last' = [op |-> "set_key_sound", key |-> key, sound |-> sound_path, ret |-> TRUE]
  /\ UNCHANGED <<pc, starts, files, settings_file, sound_library_file, settings,
                 sound_library, default_sound_path>>
  /\ UNCHANGED <<disk, audio>>

\* KeyBindingManager.get_key_sound(key)
GetKeySound(key) ==
  /\ Running
  /\ steps' = steps + 1
  /\ last' = [op |-> "get_key_sound", key |-> key, ret |-> get_key_sound(key_bindings, key)]
  /\ UNCHANGED <<pc, starts, files, settings_file, key_bindings_file, sound_library_file,
                 settings, key_bindings, sound_library, default_sound_path>>
  /\ UNCHANGED <<disk, audio>>

\* KeyBindingManager.is_valid_key(key)
IsValidKey(key) ==
  /\ Running
  /\ steps' = steps + 1
  /\ last' = [op |-> "is_valid_key", key |-> key, normalized |-> normalize_key(key),
              ret |-> normalize_key(key) \in StandardKeySet]
  /\ UNCHANGED <<pc, starts, files, settings_file, key_bindings_file, sound_library_file,
                 settings, key_bindings, sound_library, default_sound_path>>
  /\ UNCHANGED <<disk, audio>>

\* KeyBindingManager.set_all_keys_sound(sound_id)
SetAllKeysSound(sound_id) ==
  /\ Running
  /\ LET found == get_sound_info(sound_library, files, sound_id) # <<>>
     IN  /\ key_bindings' =
              IF found THEN SetEachKey(key_bindings, standard_keys, sound_id) ELSE key_bindings
         /\ key_bindings_file' = IF found THEN save_config(key_bindings_file, key_bindings') ELSE key_bindings_file
         /\ last' = [op |-> "set_all_keys_sound", sound |-> sound_id, ret |-> found]
  /\ steps' = steps + 1
  /\ UNCHANGED <<pc, starts, files, settings_file, sound_library_file, settings,
                 sound_library, default_sound_path>>
  /\ UNCHANGED <<disk, audio>>

\* KeyBindingManager.reset_all_keys_to_default()
ResetAllKeys ==
  /\ Running
  /\ key_bindings' = SetEachKey(key_bindings, standard_keys, default_sound_id)
  /\ key_bindings_file' = save_config(key_bindings_file, key_bindings')
  /\ steps' = steps + 1
  /\ last' = [op |-> "reset_all_keys_to_default", ret |-> TRUE]
  /\ UNCHANGED <<pc, starts, files, settings_file, sound_library_file, settings,
                 sound_library, default_sound_path>>
  /\ UNCHANGED <<disk, audio>>

\* the keys of kb bound to sound_path, in dict order
KeysBoundTo(kb, sound_path) ==
  LET bound == SelectSeq(kb, LAMBDA e : e[2] = sound_path)
  IN  [i \in 1..Len(bound) |-> bound[i][1]]

\* KeyBindingManager.remove_sound_bindings(sound_path)
RemoveSoundBindings(sound_path) ==
  /\ Running
  /\ LET keys_to_remove == KeysBoundTo(key_bindings, sound_path)
     IN  /\ key_bindings' = SetEachKey(key_bindings, keys_to_remove, default_sound_id)
         /\ key_bindings_file' =
              IF keys_to_remove # <<>> THEN save_config(key_bindings_file, key_bindings') ELSE key_bindings_file
  /\ steps' = steps + 1
  /\ last' = [op |-> "remove_sound_bindings", sound |-> sound_path]
  /\ UNCHANGED <<pc, starts, files, settings_file, sound_library_file, settings,
                 sound_library, default_sound_path>>
  /\ UNCHANGED <<disk, audio>>

\* ConfigManager.add_sound_to_library(sound_info)
AddSoundToLibrary(sound_info) ==
  /\ Running
  /\ sound_library' = Append(sound_library, WithCustomFlag(sound_info))
  /\ sound_library_file' = save_config(sound_library_file, sound_library')
  /\ steps' = steps + 1
  /\ last' = [op |-> "add_sound_to_library", sound |-> WithCustomFlag(sound_info)]
  /\ UNCHANGED <<pc, starts, files, settings_file, key_bindings_file, settings,
                 key_bindings, default_sound_path>>
  /\ UNCHANGED <<disk, audio>>

\* settings.get("allow_custom_sound_paths", True), as a Python truth value
AllowCustomSoundPaths(s) ==
  IF "allow_custom_sound_paths" \notin DOMAIN s THEN TRUE
  ELSE LET v == s["allow_custom_sound_paths"]
       IN  CASE v.t = "bool" -> v.b
             [] v.t = "none" -> FALSE
             [] v.t = "str" -> v.s # <<>>
             [] OTHER -> v.n # 0

\* add_custom_sound_path without the check for a descriptor of the same path
add_custom_sound_path_unchecked(s, lib, fs, file_path) ==
  AllowCustomSoundPaths(s) /\ file_path \in fs /\ EndsWith(Lower(file_path), Mp3Suffix)


\* the return value of ConfigManager.add_custom_sound_path(file_path)
add_custom_sound_path(s, lib, fs, file_path) ==
  IF ~AllowCustomSoundPaths(s) THEN FALSE
  ELSE IF file_path \notin fs THEN FALSE
  ELSE IF ~EndsWith(Lower(file_path), Mp3Suffix) THEN FALSE
  ELSE IF \E i \in 1..Len(lib) : lib[i].path = file_path THEN FALSE
  ELSE TRUE

\* ConfigManager.add_custom_sound_path(file_path)
AddCustomSoundPath(file_path) ==
  /\ Running
  /\ LET ok == add_custom_sound_path(settings, sound_library, files, file_path)
     IN  /\ sound_library' =
              IF ok THEN Append(sound_library, WithCustomFlag(PathSound(file_path)))
              ELSE sound_library
         /\ sound_library_file' = IF ok THEN save_config(sound_library_file, sound_library') ELSE sound_library_file
         /\ last' = [op |-> "add_custom_sound_path", path |-> file_path, ret |-> ok,
                     allowed |-> AllowCustomSoundPaths(settings)]
  /\ steps' = steps + 1
  /\ UNCHANGED <<pc, starts, files, settings_file, key_bindings_file, settings,
                 key_bindings, default_sound_path>>
  /\ UNCHANGED <<disk, audio>>

\* the entries of remove_sound_from_library's loop that match sound_id
Matches(lib, sound_id) ==
  {i \in 1..Len(lib) : lib[i].id = sound_id \/ lib[i].path = sound_id}

\* the loop of remove_sound_from_library stopping at the last match
FirstMatch_last(lib, sound_id) ==
  CHOOSE i \in Matches(lib, sound_id) : \A j \in Matches(lib, sound_id) : i >= j


\* the first of them
FirstMatch(lib, sound_id) ==
  CHOOSE i \in Matches(lib, sound_id) : \A j \in Matches(lib, sound_id) : i <= j

\* whether remove_sound_from_library unlinks the file of the entry it removes
Unlinks(sound, fs) ==
  /\ ~IsCustomPath(sound)
  /\ sound.path \in fs
  /\ Basename(sound.path) # ProtectedName

\* del self.sound_library[i]
DelAt(lib, i) == SubSeq(lib, 1, i - 1) \o SubSeq(lib, i + 1, Len(lib))

\* remove_sound_from_library: the bindings deleted with the entry
DelBindingsOf(kb, sound_id) == SelectSeq(kb, LAMBDA e : e[2] # sound_id)

\* ConfigManager.remove_sound_from_library(sound_id)
RemoveSoundFromLibrary(sound_id) ==
  /\ Running
  /\ IF Matches(sound_library, sound_id) # {}
     THEN LET i == FirstMatch(sound_library, sound_id)
              sound == sound_library[i]
          IN  /\ files' = IF Unlinks(sound, files) THEN files \ {sound.path} ELSE files
              /\ sound_library' = DelAt(sound_library, i)
              /\ key_bindings' = DelBindingsOf(key_bindings, sound_id)
              /\ settings_file' = save_config(settings_file, json_dump_settings(settings))
              /\ key_bindings_file' = save_config(key_bindings_file, key_bindings')
              /\ sound_library_file' = save_config(sound_library_file, sound_library')
              /\ last' = [op |-> "remove_sound_from_library", arg |-> sound_id,
                          ret |-> TRUE, removed |-> sound]
     ELSE /\ last' = [op |-> "remove_sound_from_library", arg |-> sound_id, ret |-> FALSE]
          /\ UNCHANGED <<files, settings_file, key_bindings_file, sound_library_file,
                         key_bindings, sound_library>>
  /\ steps' = steps + 1
  /\ UNCHANGED <<pc, starts, settings, default_sound_path>>
  /\ UNCHANGED <<disk, audio>>

\* ConfigManager.get_sound_info(sound_path)
GetSoundInfo(sound_path) ==
  /\ Running
  /\ steps' = steps + 1
  /\ last' = [op |-> "get_sound_info", arg |-> sound_path,
              ret |-> get_sound_info(sound_library, files, sound_path)]
  /\ UNCHANGED <<pc, starts, files, settings_file, key_bindings_file, sound_library_file,
                 settings, key_bindings, sound_library, default_sound_path>>
  /\ UNCHANGED <<disk, audio>>

\* ConfigManager.set_setting(key, value)
SetSetting(key, value) ==
  /\ Running
  /\ settings' = (key :> value) @@ settings
  /\ settings_file' = save_config(settings_file, json_dump_settings(settings'))
  /\ steps' = steps + 1
  /\ last' = [op |-> "set_setting", key |-> key, value |-> value]
  /\ UNCHANGED <<pc, starts, files, key_bindings_file, sound_library_file, key_bindings,
                 sound_library, default_sound_path>>
  /\ UNCHANGED <<disk, audio>>

\* ConfigManager.set_enabled(enabled)
SetEnabled(enabled) ==
  /\ Running
  /\ settings' = ("enabled" :> PyBool(enabled)) @@ settings
  /\ settings_file' = save_config(settings_file, json_dump_settings(settings'))
  /\ steps' = steps + 1
  /\ last' = [op |-> "set_enabled", value |-> PyBool(enabled)]
  /\ UNCHANGED <<pc, starts, files, key_bindings_file, sound_library_file, key_bindings,
                 sound_library, default_sound_path>>
  /\ UNCHANGED <<disk, audio>>

\* a number's value in tenths
Tenths(v) == IF v.t = "int" THEN 10 * v.n ELSE v.n

\* max(0.0, min(1.0, volume)): each returns its first argument unless the
\* second is strictly beyond it
ClampVolume(volume) ==
  LET low == IF Tenths(volume) < 10 THEN volume ELSE PyFloat(10)
  IN  IF Tenths(low) > 0 THEN low ELSE PyFloat(0)

\* ConfigManager.set_volume(volume)
SetVolume(volume) ==
  /\ Running
  /\ settings' = ("volume" :> ClampVolume(volume)) @@ settings
  /\ settings_file' = save_config(settings_file, json_dump_settings(settings'))
  /\ steps' = steps + 1
  /\ last' = [op |-> "set_volume", value |-> ClampVolume(volume)]
  /\ UNCHANGED <<pc, starts, files, key_bindings_file, sound_library_file, key_bindings,
                 sound_library, default_sound_path>>
  /\ UNCHANGED <<disk, audio>>

\* ---------------------------------------------------------- specifications

\* ------------------------------------ keyboard listener and sound manager

\* calls of play_sound explored
MaxCalls == 2

\* the keys pynput hands to the callback: a character key, a special key, or
\* a key code without a character
KeyEvents ==
  { [t |-> "KeyCode", char |-> <<"a">>, vk |-> 65],
    [t |-> "KeyCode", char |-> <<"A">>, vk |-> 65],
    [t |-> "KeyCode", char |-> <<>>, vk |-> 179],
    [t |-> "Key", name |-> <<"e", "s", "c">>],
    [t |-> "Key", name |-> <<"s", "h", "i", "f", "t", "_", "r">>] }

\* KeyboardListener._normalize_key: a special key's name is the name of the
\* Key member, for the members of key_names and for the others
listener_normalize_key(key) ==
  IF key.t = "KeyCode"
  THEN IF key.char # <<>> THEN Lower(key.char)
       ELSE <<"k", "e", "y", "_">> \o NatToStr(key.vk)
  ELSE key.name

\* dict.setdefault(key, default_sound_id): a key the dict lacks is added
dict_after_setdefault(d, k) ==
  IF DictHas(d, k) THEN d ELSE Append(d, <<k, default_sound_id>>)

\* ConfigManager.get_key_binding: self.key_bindings.get(key) leaves the dict
\* as it is
dict_after_get(d, k) == d


\* a call of SoundManager.play_sound by a thread: where the thread is in it
\* ("called", "playing" inside playsound(), "returned"), what it returned, and
\* the playback it started ("none", "running", "finished", "failed")
NewCall(thread, sound_path) ==
  [thread |-> thread, path |-> sound_path, pc |-> "called", ret |-> FALSE,
   playback |-> "none"]

\* whether the thread is inside a call of play_sound
ThreadBusy(cs, thread) == \E i \in 1..Len(cs) : cs[i].thread = thread /\ cs[i].pc # "returned"

\* _on_key_press calling play_sound itself
play_in_callback(cs, sound_path) == Append(cs, NewCall("hook", sound_path))

\* _on_key_press: threading.Thread(target=play_sound, args=(sound_path,)).start()
start_play_thread(cs, sound_path) == Append(cs, NewCall("background", sound_path))

\* play_sound accepting every path that is not empty
play_sound_valid_nonempty(fs, sound_path) == sound_path # <<>>

\* play_sound: sound_path and os.path.exists(sound_path)
play_sound_valid(fs, sound_path) == sound_path # <<>> /\ sound_path \in fs

\* KeyboardListener.set_enabled(enabled)
ListenerSetEnabled(enabled) ==
  /\ Running
  /\ ~ThreadBusy(calls, "ui")
  /\ listener_enabled' = enabled
  /\ steps' = steps + 1
  /\ last' = [op |-> "listener_set_enabled", value |-> enabled]
  /\ UNCHANGED <<pc, starts, files, settings_file, key_bindings_file, sound_library_file,
                 settings, key_bindings, sound_library, default_sound_path, disk,
                 is_playing, calls>>
  /\ UNCHANGED hook

\* _on_key_press past the test of enabled: the name is handed to the user
\* interface's callback (set before the hook is started), the binding is read
\* and play_sound is handed to a thread
handle_key(kb, cs, key) ==
  LET key_name == listener_normalize_key(key)
      sound_path == get_key_sound(kb, key_name)
  IN  [handled |-> TRUE, callback |-> <<key_name>>, key_name |-> key_name,
       sound |-> sound_path,
       key_bindings |-> dict_after_get(kb, normalize_key(key_name)),
       calls |-> IF sound_path # NoSound THEN start_play_thread(cs, sound_path) ELSE cs]

\* _on_key_press without the test of enabled
on_key_press_unguarded(enabled, kb, cs, key) == handle_key(kb, cs, key)

\* KeyboardListener._on_key_press: what the handler hands to the callback,
\* and the bindings and the calls of play_sound after it
on_key_press(enabled, kb, cs, key) ==
  IF ~enabled
  THEN [handled |-> FALSE, callback |-> <<>>, key_name |-> <<>>, sound |-> NoSound,
        key_bindings |-> kb, calls |-> cs]
  ELSE handle_key(kb, cs, key)

\* KeyboardListener._on_key_press(key), run by the hook thread, which delivers
\* one key press at a time
KeyPress(key) ==
  /\ pc = "running"
  /\ Len(calls) < MaxCalls
  /\ ~ThreadBusy(calls, "hook")
  /\ LET r == on_key_press(listener_enabled, key_bindings, calls, key)
     IN  /\ calls' = r.calls
         /\ key_bindings' = r.key_bindings
         /\ last' = IF r.handled
                    THEN [op |-> "key_press", key |-> key, handled |-> TRUE,
                          key_name |-> r.key_name, sound |-> r.sound,
                          callback |-> r.callback]
                    ELSE [op |-> "key_press", key |-> key, handled |-> FALSE,
                          callback |-> r.callback]
  /\ UNCHANGED <<pc, starts, steps, files, settings_file, key_bindings_file,
                 sound_library_file, settings, sound_library,
                 default_sound_path, disk, listener_enabled, is_playing>>
  /\ UNCHANGED hook

\* the user interface calls sound_manager.play_sound(sound_path)
UiPlaySound(sound_path) ==
  /\ pc = "running"
  /\ Len(calls) < MaxCalls
  /\ ~ThreadBusy(calls, "ui")
  /\ calls' = Append(calls, NewCall("ui", sound_path))
  /\ last' = [op |-> "play_sound", path |-> sound_path]
  /\ UNCHANGED <<pc, starts, steps, files, settings_file, key_bindings_file,
                 sound_library_file, settings, key_bindings, sound_library,
                 default_sound_path, disk, listener_enabled, is_playing>>
  /\ UNCHANGED hook

\* SoundManager.play_sound up to the call of playsound(): a path that is not
\* valid returns False; else _play_sound_async sets is_playing and calls
\* playsound(sound_path), which returns when the sound has been played
PlaySoundBegin(i) ==
  /\ pc = "running"
  /\ i \in 1..Len(calls)
  /\ calls[i].pc = "called"
  /\ IF play_sound_valid(files, calls[i].path)
     THEN /\ calls' = [calls EXCEPT ![i].pc = "playing", ![i].playback = "running"]
          /\ is_playing' = TRUE
     ELSE /\ calls' = [calls EXCEPT ![i].pc = "returned", ![i].ret = FALSE]
          /\ is_playing' = is_playing
  /\ last' = [op |-> "play_sound_begin", call |-> i]
  /\ UNCHANGED <<pc, starts, steps, files, settings_file, key_bindings_file,
                 sound_library_file, settings, key_bindings, sound_library,
                 default_sound_path, disk, listener_enabled>>
  /\ UNCHANGED hook

\* playsound() returns (ok) or raises: _play_sound_async clears is_playing
\* either way, catches the exception, and play_sound returns True
PlaybackEnds(i, ok) ==
  /\ pc = "running"
  /\ i \in 1..Len(calls)
  /\ calls[i].pc = "playing"
  /\ calls' = [calls EXCEPT ![i].pc = "returned", ![i].ret = TRUE,
                            ![i].playback = IF ok THEN "finished" ELSE "failed"]
  /\ is_playing' = FALSE
  /\ last' = [op |-> "playback_ends", call |-> i, ok |-> ok]
  /\ UNCHANGED <<pc, starts, steps, files, settings_file, key_bindings_file,
                 sound_library_file, settings, key_bindings, sound_library,
                 default_sound_path, disk, listener_enabled>>
  /\ UNCHANGED hook

\* stop_sound ending the playbacks that are running
stop_sound_cancelling(playing, cs) ==
  [is_playing |-> FALSE,
   calls |-> [i \in 1..Len(cs) |->
                IF cs[i].pc = "playing"
                THEN [cs[i] EXCEPT !.pc = "returned", !.ret = TRUE, !.playback = "stopped"]
                ELSE cs[i]]]

\* SoundManager.stop_sound: the flag and the calls of play_sound after it
stop_sound(playing, cs) == [is_playing |-> FALSE, calls |-> cs]

\* SoundManager.stop_sound(), called by the user interface thread
StopSound ==
  /\ Running
  /\ ~ThreadBusy(calls, "ui")
  /\ is_playing' = stop_sound(is_playing, calls).is_playing
  /\ calls' = stop_sound(is_playing, calls).calls
  /\ steps' = steps + 1
  /\ last' = [op |-> "stop_sound", was_playing |-> is_playing]
  /\ UNCHANGED <<pc, starts, files, settings_file, key_bindings_file, sound_library_file,
                 settings, key_bindings, sound_library, default_sound_path, disk,
                 listener_enabled>>
  /\ UNCHANGED hook


\* calls of start_listening and stop_listening explored
MaxHookCalls == 4

\* the listener's fields is_listening and listener, with the hooks active
HookState == [is_listening |-> is_listening, listener |-> listener, hooks |-> hooks]

\* how a call of start_listening or stop_listening can go: Listener() or
\* listener.start() raises, listener.stop() or listener.join() raises
StartOutcomes == {"ok", "constructor_raises", "start_raises"}
StopOutcomes == {"ok", "stop_raises", "join_raises"}

\* the hooks left when the Listener held is stopped
HooksAfterStop(st) == IF st.listener = "running" THEN st.hooks - 1 ELSE st.hooks

\* start_listening without the test of is_listening
start_listening_unguarded(st, outcome) ==
  CASE outcome = "ok" ->
         [is_listening |-> TRUE, listener |-> "running", hooks |-> st.hooks + 1]
    [] outcome = "constructor_raises" -> st
    [] outcome = "start_raises" -> [st EXCEPT !.listener = "created"]

\* KeyboardListener.start_listening: the Listener held is "created" once
\* constructed and "running" once started
start_listening(st, outcome) ==
  IF st.is_listening THEN st
  ELSE CASE outcome = "ok" ->
              [is_listening |-> TRUE, listener |-> "running", hooks |-> st.hooks + 1]
         [] outcome = "constructor_raises" -> st
         [] outcome = "start_raises" -> [st EXCEPT !.listener = "created"]

\* KeyboardListener.stop_listening: an exception is caught and leaves the
\* assignments after it undone
stop_listening(st, outcome) ==
  IF ~st.is_listening \/ st.listener = "None" THEN st
  ELSE CASE outcome = "ok" ->
              [is_listening |-> FALSE, listener |-> "None", hooks |-> HooksAfterStop(st)]
         [] outcome = "stop_raises" -> st
         [] outcome = "join_raises" ->
              [st EXCEPT !.listener = "stopped", !.hooks = HooksAfterStop(st)]

\* keyboard_listener.start_listening()
StartListening(outcome) ==
  /\ pc = "running"
  /\ steps < MaxHookCalls
  /\ LET st == start_listening(HookState, outcome)
     IN  /\ is_listening' = st.is_listening
         /\ listener' = st.listener
         /\ hooks' = st.hooks
  /\ steps' = steps + 1
  /\ last' = [op |-> "start_listening", outcome |-> outcome,
              raised |-> (~is_listening /\ outcome # "ok")]
  /\ UNCHANGED <<pc, starts, files, settings_file, key_bindings_file, sound_library_file,
                 settings, key_bindings, sound_library, default_sound_path, disk,
                 listener_enabled, is_playing, calls>>

\* keyboard_listener.stop_listening()
StopListening(outcome) ==
  /\ pc = "running"
  /\ steps < MaxHookCalls
  /\ LET st == stop_listening(HookState, outcome)
     IN  /\ is_listening' = st.is_listening
         /\ listener' = st.listener
         /\ hooks' = st.hooks
  /\ steps' = steps + 1
  /\ last' = [op |-> "stop_listening", outcome |-> outcome]
  /\ UNCHANGED <<pc, starts, files, settings_file, key_bindings_file, sound_library_file,
                 settings, key_bindings, sound_library, default_sound_path, disk,
                 listener_enabled, is_playing, calls>>


\* paths handed to play_sound by the user interface
PlayArgs == {NoSound, UserMp3, UserMissing}



SettingValueArgs == {PyBool(FALSE), PyBool(TRUE)}

VolumeArgs == {PyInt(50), PyFloat(5)}

Startup == MainAddDefault \/ KeyBindingInit \/ MainLoadBindings

\* the first start of the application
FirstStart == starts = 0 /\ ConfigInit

Operation ==
  \/ \E key \in RawKeys, sound_path \in SoundArgs : SetKeySound(key, sound_path)
  \/ \E key \in RawKeys : GetKeySound(key)
  \/ \E sound_id \in {UserMp3, UserMissing} : SetAllKeysSound(sound_id)
  \/ ResetAllKeys
  \/ \E sound_path \in {UserMp3, SoundsDefaultFile} : RemoveSoundBindings(sound_path)
  \/ \E sound_info \in SoundInfoArgs : AddSoundToLibrary(sound_info)
  \/ \E file_path \in CustomPathArgs : AddCustomSoundPath(file_path)
  \/ \E sound_id \in RemoveArgs : RemoveSoundFromLibrary(sound_id)
  \/ \E sound_path \in SoundIdArgs : GetSoundInfo(sound_path)
  \/ \E value \in SettingValueArgs : SetSetting("allow_custom_sound_paths", value)
  \/ \E enabled \in BOOLEAN : SetEnabled(enabled)
  \/ \E volume \in VolumeArgs : SetVolume(volume)
  \/ ExternalDelete(UserMp3)

\* one run of the application, from a fresh installation
Next == FirstStart \/ Startup \/ Operation \/ Quit

Spec == Init /\ [][Next]_vars

\* ------------------------------------------------------------------ claims

\* standard keys whose bindings are followed from step to step
WatchedKeys ==
  { <<"a">>, <<"f", "1">>, <<"e", "s", "c", "a", "p", "e">>, <<"s", "p", "a", "c", "e">>,
    <<"n", "u", "m", "_", "1">>, <<"\\">> }

\* the operations that read, change settings or change the library only
NonBindingOps ==
  { "get_key_sound", "is_valid_key", "get_sound_info", "set_setting", "set_enabled",
    "set_volume", "add_sound_to_library", "add_custom_sound_path", "external_delete" }

\* C1: after set_key_sound(k, P) on a standard key k with a non-empty path P,
\* get_key_sound(k) returns P; and a step that reads, changes a setting,
\* changes the library only, or sets the sound of a key that normalizes to
\* another key leaves what get_key_sound returns for k as it was.
C1_SetSoundPersists ==
  [][ /\ (/\ last'.op = "set_key_sound"
          /\ last'.sound # NoSound
          /\ last'.key \in StandardKeySet)
         => get_key_sound(key_bindings', last'.key) = last'.sound
      /\ \A k \in WatchedKeys :
           (\/ last'.op \in NonBindingOps
            \/ /\ last'.op = "set_key_sound"
               /\ normalize_key(last'.key) # normalize_key(k))
           => get_key_sound(key_bindings', k) = get_key_sound(key_bindings, k)
    ]_vars

\* C1 witness: "a" was set to the user's sound, another operation followed,
\* and get_key_sound("a") still returns that sound while other keys differ
C1_Witness ==
  /\ last.op = "set_volume"
  /\ get_key_sound(key_bindings, <<"a">>) = UserMp3
  /\ get_key_sound(key_bindings, <<"f", "1">>) # UserMp3

\* C2: get_key_sound never returns None or the empty string: a key with no
\* entry in the binding table, and a key whose sound was just set to None,
\* yield the default sound id.
C2_NeverNull ==
  pc = "running" =>
    /\ \A key \in RawKeys \cup WatchedKeys :
         /\ get_key_sound(key_bindings, key) # NoSound
         /\ ~DictHas(key_bindings, normalize_key(key))
              => get_key_sound(key_bindings, key) = default_sound_id
    /\ (last.op = "get_key_sound") => last.ret # NoSound
    /\ (last.op = "set_key_sound" /\ last.sound = NoSound)
         => get_key_sound(key_bindings, last.key) = default_sound_id

\* C2 witness: the sound of "a" was set to None while other keys stay bound,
\* and get_key_sound("a") returned the default sound id
C2_Witness ==
  /\ last.op = "get_key_sound"
  /\ last.key = <<"a">>
  /\ last.ret = default_sound_id
  /\ ~DictHas(key_bindings, <<"a">>)
  /\ DictHas(key_bindings, <<"f", "1">>)

\* the spellings of the alias table
AliasSpellings == KeyMappingKeys

\* the numpad spellings: either prefix before a digit or an operator name
NumpadSpellings ==
  { prefix \o suffix : prefix \in {NumpadPrefix, NumPrefix},
                       suffix \in {<<d>> : d \in Digits} \cup NumpadOperators }

\* the function key spellings, in either case
FunctionSpellings == { f \o NatToStr(n) : f \in {<<"f">>, <<"F">>}, n \in 1..12 }

KeySpellings == AliasSpellings \cup NumpadSpellings \cup FunctionSpellings

NormalizeNext == FirstStart \/ Startup \/ \E key \in KeySpellings : IsValidKey(key)

\* one run of the application in which keys are normalized
NormalizeSpec == Init /\ [][NormalizeNext]_vars

\* C3: normalizing is idempotent on the alias, numpad and function key
\* spellings: normalizing the name that _normalize_key returned for such a
\* spelling gives that name again.
C3_Idempotent ==
  last.op = "is_valid_key" => normalize_key(last.normalized) = last.normalized

\* C4: when remove_sound_from_library(x) removes the descriptor d (x is d's
\* id or d's path) and returns True, get_key_sound returns the default sound
\* id for every standard key that was bound to d's path before the removal.
C4_RemoveUnbinds ==
  [][ (last'.op = "remove_sound_from_library" /\ last'.ret)
      => \A k \in StandardKeySet :
           get_key_binding(key_bindings, k) = last'.removed.path
           => get_key_sound(key_bindings', k) = default_sound_id
    ]_vars

\* the filenames of the descriptors of the bundled default sound: the copy in
\* the sounds directory and the resource file
BundledDefaultFilenames == {DefaultFilename, ProtectedName}

\* C5: when remove_sound_from_library removes the descriptor d whose file is
\* on disk, the file is deleted if and only if d is no custom path entry and
\* d's filename is not the bundled default sound's filename.
C5_FileDeletedIff ==
  [][ (/\ last'.op = "remove_sound_from_library"
       /\ last'.ret
       /\ last'.removed.path \in files)
      => LET d == last'.removed
         IN  (d.path \notin files')
               <=> (~IsCustomPath(d) /\ d.filename \notin BundledDefaultFilenames)
    ]_vars

\* whether the library lib holds a descriptor of the path p
HasPath(lib, p) == \E i \in 1..Len(lib) : lib[i].path = p

\* C6: add_custom_sound_path(p) returns False and leaves the sound library
\* (in memory and on disk) as it was when p is no file on disk, or p does not
\* end in ".mp3" in any case of the letters, or a descriptor of the library
\* has the path p, or the setting allow_custom_sound_paths is false.
C6_AddCustomPathFails ==
  [][ (/\ last'.op = "add_custom_sound_path"
       /\ \/ last'.path \notin files
          \/ ~EndsWith(Lower(last'.path), Mp3Suffix)
          \/ HasPath(sound_library, last'.path)
          \/ /\ "allow_custom_sound_paths" \in DOMAIN settings
             /\ settings["allow_custom_sound_paths"] = PyBool(FALSE))
      => /\ last'.ret = FALSE
         /\ sound_library' = sound_library
         /\ sound_library_file' = sound_library_file
    ]_vars

\* C6 witness: add_custom_sound_path returned False for an .mp3 file on disk
\* while custom paths are allowed: the library has its path already
C6_Witness ==
  /\ last.op = "add_custom_sound_path"
  /\ last.ret = FALSE
  /\ last.allowed
  /\ last.path = UserMp3
  /\ UserMp3 \in files
  /\ HasPath(sound_library, UserMp3)

\* C7: when no descriptor of the library has the path p, after
\* add_sound_to_library(A) with A.path = p, get_sound_info(p) returns A; when
\* remove_sound_from_library(p) follows, it returns True, the library has no
\* descriptor of p afterwards, and get_sound_info(p) returns None unless the
\* file p is still on disk, in which case it returns a new descriptor
\* built from the path.
C7_AddResolveRemove ==
  [][ /\ (last'.op = "add_sound_to_library" /\ ~HasPath(sound_library, last'.sound.path))
         => get_sound_info(sound_library', files', last'.sound.path) = <<last'.sound>>
      /\ (/\ last.op = "add_sound_to_library"
          /\ last'.op = "remove_sound_from_library"
          /\ last'.arg = last.sound.path
          /\ sound_library # <<>>
          /\ sound_library[Len(sound_library)] = last.sound
          /\ ~HasPath(SubSeq(sound_library, 1, Len(sound_library) - 1), last'.arg))
         => /\ last'.ret = TRUE
            /\ ~HasPath(sound_library', last'.arg)
            /\ get_sound_info(sound_library', files', last'.arg) =
                 IF last'.arg \in files' THEN <<PathSound(last'.arg)>> ELSE <<>>
    ]_vars

\* C7 witness: a descriptor a caller added for the user's file was removed by
\* its path, its file went with it, and get_sound_info finds nothing
C7_Witness ==
  /\ last.op = "remove_sound_from_library"
  /\ last.ret
  /\ last.arg = UserMp3
  /\ ~IsCustomPath(last.removed)
  /\ UserMp3 \notin files
  /\ get_sound_info(sound_library, files, UserMp3) = <<>>

\* C7 witness of the other case: the removed descriptor's file stays on disk
\* and get_sound_info builds a descriptor from the path
C7_WitnessFileKept ==
  /\ last.op = "remove_sound_from_library"
  /\ last.ret
  /\ last.arg = UserUpperMp3
  /\ UserUpperMp3 \in files
  /\ ~HasPath(sound_library, UserUpperMp3)
  /\ get_sound_info(sound_library, files, UserUpperMp3) = <<PathSound(UserUpperMp3)>>

\* ---------------------------------------------------- repeated starts

\* the application is started, used and quit, up to MaxStarts times; a caller
\* of add_sound_to_library checks first that the library has not the path
LifecycleNext ==
  \/ ConfigInit
  \/ Startup
  \/ Quit
  \/ AddCustomSoundPath(UserMp3)
  \/ \E sound_info \in SoundInfoArgs :
       ~HasPath(sound_library, sound_info.path) /\ AddSoundToLibrary(sound_info)
  \/ \E sound_id \in {default_sound_id, UserMp3} : RemoveSoundFromLibrary(sound_id)
  \/ SetKeySound(<<"a">>, NoSound)
  \/ ExternalDelete(UserMp3)

LifecycleSpec == Init /\ [][LifecycleNext]_vars

\* a descriptor get_sound_library lets through
Usable(sound, fs) == sound.filename # <<>> /\ sound.path # <<>> /\ sound.path \in fs

\* C8 as stated: when KeyBindingManager is constructed over an empty binding
\* table and a library with at least one sound, get_key_sound returns the path
\* of a library sound for every standard key (of the only sound, if there is
\* one only); over a binding table that is not empty, no binding changes.
C8_FirstRunBindsAll ==
  pc = "bindings" =>
    /\ (last.before = <<>> /\ sound_library # <<>>)
         => \A k \in StandardKeySet :
              /\ HasPath(sound_library, get_key_sound(key_bindings, k))
              /\ Len(sound_library) = 1
                   => get_key_sound(key_bindings, k) = sound_library[1].path
    /\ last.before # <<>> => key_bindings = last.before

\* C8 amended: the same, for a library with at least one sound that has a
\* filename and a path and whose file is on disk; the path returned is the
\* path of such a sound.
C8_FirstRunBindsUsable ==
  pc = "bindings" =>
    /\ (/\ last.before = <<>>
        /\ \E i \in 1..Len(sound_library) : Usable(sound_library[i], files))
         => \A k \in StandardKeySet :
              /\ \E i \in 1..Len(sound_library) :
                   /\ Usable(sound_library[i], files)
                   /\ sound_library[i].path = get_key_sound(key_bindings, k)
              /\ Len(sound_library) = 1
                   => get_key_sound(key_bindings, k) = sound_library[1].path
    /\ last.before # <<>> => key_bindings = last.before

\* C8 witness: KeyBindingManager was constructed over an empty binding table
\* and bound the standard keys
C8_Witness ==
  /\ pc = "bindings"
  /\ last.before = <<>>
  /\ \A k \in StandardKeySet : DictHas(key_bindings, k)

\* C10: no two descriptors of the sound library have the same path.
C10_PathsUnique ==
  \A i, j \in 1..Len(sound_library) :
    sound_library[i].path = sound_library[j].path => i = j

\* ------------------------------------------------------- settings.json

\* option names: one of the defaults and one the application does not know
SettingKeys == {"volume", "theme"}

\* JSON scalars: booleans, null, integers, floats, and strings, among them
\* strings that read like other scalars and one with characters json.dump
\* escapes
ScalarValues ==
  { PyBool(TRUE), PyNone, PyInt(0), PyInt(-7), PyFloat(5), PyFloat(120),
    PyStr(<<>>), PyStr(<<"8", "0">>), PyStr(JsonTrue), PyStr(<<"a", "\"", "\\", "\n">>) }

\* a fresh installation without resource files
SettingsInit == Init /\ files = UserFiles

SettingsNext ==
  \/ ConfigInit
  \/ Startup
  \/ Quit
  \/ \E key \in SettingKeys, value \in ScalarValues : SetSetting(key, value)

SettingsSpec == SettingsInit /\ [][SettingsNext]_vars

\* C9: the settings that save_config wrote to settings.json when the
\* application quit are the settings load_config returns at the next start:
\* the file exists and the mapping loaded equals the mapping saved.
C9_SettingsRoundTrip ==
  [][ (last.op = "quit" /\ last'.op = "ConfigManager")
      => /\ settings_file # <<>>
         /\ last'.loaded = last.saved
    ]_vars

\* C9 witness: the second start loaded settings that are not the defaults,
\* with a string that json.dump escapes
C9_Witness ==
  /\ last.op = "ConfigManager"
  /\ starts = 2
  /\ "theme" \in DOMAIN last.loaded
  /\ last.loaded["theme"] = PyStr(<<"a", "\"", "\\", "\n">>)
  /\ last.loaded["volume"] = PyFloat(5)

\* C11: every key name of the key-to-sound mapping is a standard key.
C11_KeysInVocabulary ==
  \A k \in DictKeys(key_bindings) : k \in StandardKeySet

\* ------------------------------------------------ playback claims

PlayNext ==
  \/ FirstStart
  \/ Startup
  \/ \E enabled \in BOOLEAN : ListenerSetEnabled(enabled)
  \/ \E key \in KeyEvents : KeyPress(key)
  \/ \E sound_path \in PlayArgs : UiPlaySound(sound_path)
  \/ \E i \in 1..MaxCalls : PlaySoundBegin(i)
  \/ \E i \in 1..MaxCalls, ok \in BOOLEAN : PlaybackEnds(i, ok)

\* one run of the application with key presses and playback
PlaySpec == Init /\ [][PlayNext]_vars

\* C12: the key-press callback returns once it has handed the playback to a
\* new background task: when a handled key press has a sound, the hook thread
\* is free again, the new task has not played yet, and the calls already in
\* progress are as they were.
C12_CallbackDoesNotWait ==
  [][(last'.op = "key_press" /\ last'.handled /\ last'.sound # NoSound) =>
       /\ ~ThreadBusy(calls', "hook")
       /\ Len(calls') = Len(calls) + 1
       /\ calls'[Len(calls')].thread = "background"
       /\ calls'[Len(calls')].pc = "called"
       /\ calls'[Len(calls')].playback = "none"
       /\ \A i \in 1..Len(calls) : calls'[i] = calls[i]]_vars

\* a key press handled while the playback of an earlier key press is running
C12_Witness ==
  /\ last.op = "key_press" /\ last.handled
  /\ Len(calls) = 2
  /\ calls[1].thread = "background" /\ calls[1].playback = "running"
  /\ calls[2].thread = "background" /\ calls[2].pc = "called"

\* C13: play(path) for an existing file returns true while the playback is
\* still to complete: a playback that is running belongs to a call that has
\* returned true.
C13_PlayReturnsBeforeCompletion ==
  \A i \in 1..Len(calls) :
    calls[i].playback = "running" => (calls[i].pc = "returned" /\ calls[i].ret)

\* C14: play(path) with an empty path or a path of no file returns false,
\* starts no playback and leaves is_playing as it was.
C14_InvalidPathReturnsFalse ==
  [][\A i \in 1..Len(calls) :
       (/\ calls[i].pc = "called"
        /\ calls'[i].pc # "called"
        /\ (calls[i].path = NoSound \/ calls[i].path \notin files)) =>
         /\ calls'[i].pc = "returned"
         /\ calls'[i].ret = FALSE
         /\ calls'[i].playback = "none"
         /\ is_playing' = is_playing]_vars

\* play of a missing file returned false while another playback is running
C14_Witness ==
  /\ last.op = "play_sound_begin"
  /\ calls[last.call].path = UserMissing
  /\ calls[last.call].pc = "returned" /\ ~calls[last.call].ret
  /\ is_playing
  /\ \E i \in 1..Len(calls) : calls[i].playback = "running"

\* play of the empty path returned false
C14_WitnessEmpty ==
  /\ last.op = "play_sound_begin"
  /\ calls[last.call].path = NoSound
  /\ calls[last.call].pc = "returned" /\ ~calls[last.call].ret

\* C15: when the playback primitive raises for an existing file, play returns
\* false.
C15_FailedPlaybackReturnsFalse ==
  \A i \in 1..Len(calls) :
    calls[i].playback = "failed" => (calls[i].pc = "returned" /\ calls[i].ret = FALSE)


\* ---------------------------------------------------- persistence claims

\* the options the application recognizes
RecognizedOptions ==
  {"enabled", "volume", "minimize_to_tray", "auto_start", "allow_custom_sound_paths"}

\* a settings.json that holds one option only
PartialSettings == json_dump_settings("volume" :> PyInt(50))

\* what the user, or another program, can leave in settings.json
ExternalSettings == DamagedFiles \cup {<<>>, <<PartialSettings>>}

\* settings.json is replaced while the application is not running
ExternalWriteSettings(file) ==
  /\ pc = "off"
  /\ starts < MaxStarts
  /\ settings_file' = file
  /\ last' = [op |-> "external_write", name |-> "settings.json"]
  /\ UNCHANGED <<pc, starts, steps, files, key_bindings_file, sound_library_file,
                 settings, key_bindings, sound_library, default_sound_path, disk, audio>>

\* key_bindings.json is damaged while the application is not running
ExternalWriteBindings(file) ==
  /\ pc = "off"
  /\ starts < MaxStarts
  /\ key_bindings_file' = file
  /\ last' = [op |-> "external_write", name |-> "key_bindings.json"]
  /\ UNCHANGED <<pc, starts, steps, files, settings_file, sound_library_file,
                 settings, key_bindings, sound_library, default_sound_path, disk, audio>>

\* the configuration directory exists and writing to it starts to fail (d is
\* "readonly" or "full") or works again (d is "ok")
DiskChange(d) ==
  /\ starts >= 1
  /\ d # disk
  /\ disk' = d
  /\ last' = [op |-> "disk", state |-> d]
  /\ UNCHANGED <<pc, starts, steps, files, settings_file, key_bindings_file,
                 sound_library_file, settings, key_bindings, sound_library,
                 default_sound_path, audio>>

PersistNext ==
  \/ ConfigInit
  \/ Startup
  \/ Quit
  \/ \E value \in SettingValueArgs : SetSetting("allow_custom_sound_paths", value)
  \/ \E enabled \in BOOLEAN : SetEnabled(enabled)
  \/ \E volume \in VolumeArgs : SetVolume(volume)
  \/ \E file \in ExternalSettings : ExternalWriteSettings(file)
  \/ \E file \in DamagedFiles : ExternalWriteBindings(file)
  \/ \E d \in {"ok", "readonly", "full"} : DiskChange(d)

\* starts of the application on an installation without resource files, with
\* configuration files damaged between the runs and writes that fail
PersistSpec == SettingsInit /\ [][PersistNext]_vars

SettingSetters == {"set_setting", "set_enabled", "set_volume"}

\* the option a setter call changed
SetOption(call) ==
  CASE call.op = "set_setting" -> call.key
    [] call.op = "set_enabled" -> "enabled"
    [] call.op = "set_volume" -> "volume"

\* C16: no persistence error reaches the caller: ConfigManager() raises
\* nothing, load_config gives the default for a file that is missing or not
\* readable as JSON, and a setter whose write fails returns with the new
\* value in memory and without the new document in the file.
C16_NoPersistenceErrorPropagates ==
  [][/\ last'.op = "ConfigManager" =>
          /\ last'.raised = "none"
          /\ Len(settings_file) # 1 => last'.loaded = default_settings
          /\ Len(key_bindings_file) # 1 => key_bindings' = <<>>
     /\ (last'.op \in SettingSetters /\ disk # "ok") =>
          /\ settings'[SetOption(last')] = last'.value
          /\ (Len(settings_file') # 1 \/
              settings_file'[1] # json_dump_settings(settings') \/
              settings_file' = settings_file)]_vars

\* C17: after ConfigManager() the settings in memory hold every recognized
\* option.
C17_DefaultsMerged ==
  [][(last'.op = "ConfigManager" /\ last'.raised = "none") =>
       RecognizedOptions \subseteq DOMAIN settings']_vars

\* C18: after set_setting, set_enabled or set_volume, with the write
\* succeeding, settings.json holds the settings in memory: loading it gives
\* the same settings.
C18_PersistedOnEveryMutation ==
  [][(last'.op \in SettingSetters /\ disk = "ok") =>
       /\ Len(settings_file') = 1
       /\ load_settings(settings_file', default_settings) = settings'
       /\ settings'[SetOption(last')] = last'.value]_vars

\* set_volume after set_enabled: settings.json holds both values
C18_Witness ==
  /\ last.op = "set_volume"
  /\ disk = "ok"
  /\ steps = 2
  /\ settings["volume"] = PyFloat(5)
  /\ settings["enabled"] = PyBool(FALSE)
  /\ settings_file = <<json_dump_settings(settings)>>


\* ------------------------------------------------------ bulk binding claims

\* C19: set_all_keys_sound(s) returns False and changes no binding when s is
\* the path of no library sound and of no file; else it returns True and
\* get_key_sound gives s for every standard key.
C19_SetAllValidates ==
  [][last'.op = "set_all_keys_sound" =>
       IF ~HasPath(sound_library, last'.sound) /\ last'.sound \notin files
       THEN /\ last'.ret = FALSE
            /\ key_bindings' = key_bindings
            /\ key_bindings_file' = key_bindings_file
       ELSE /\ last'.ret = TRUE
            /\ \A k \in StandardKeySet :
                 get_key_sound(key_bindings', k) = last'.sound]_vars

\* set_all_keys_sound returned True and the keys give the sound
C19_Witness ==
  /\ last.op = "set_all_keys_sound"
  /\ last.ret
  /\ last.sound = UserMp3
  /\ \A k \in WatchedKeys : get_key_sound(key_bindings, k) = UserMp3

\* set_all_keys_sound returned False for a path of no sound, with keys bound
C19_WitnessRefused ==
  /\ last.op = "set_all_keys_sound"
  /\ ~last.ret
  /\ key_bindings # <<>>

\* C20: after reset_all_keys_to_default() every standard key has an entry
\* that is the default sound id, and get_key_sound gives the default sound id.
C20_ResetBindsDefault ==
  [][last'.op = "reset_all_keys_to_default" =>
       \A k \in StandardKeySet :
         /\ DictHas(key_bindings', k)
         /\ DictGet(key_bindings', k) = default_sound_id
         /\ get_key_sound(key_bindings', k) = default_sound_id]_vars

\* reset after the first start had bound every key to the default sound's file
C20_Witness ==
  /\ last.op = "reset_all_keys_to_default"
  /\ SoundsDefaultFile \in files
  /\ sound_library # <<>>
  /\ \A k \in WatchedKeys : DictGet(key_bindings, k) = default_sound_id


\* ------------------------------------------------- key vocabulary claims

\* names that are no spelling of a key, and empty and blank names
UnrecognizedSpellings ==
  { <<>>, <<" ">>, <<" ", " ">>, <<"\t">>, <<"z", "z">>, <<"Z", "Z">>,
    <<"f", "1", "3">>, <<"f", "0">>, <<"n", "u", "m", "p", "a", "d", "_", "x">>,
    <<"n", "u", "m", "_">>, <<"h", "e", "l", "l", "o">>,
    <<"k", "e", "y", "_", "1", "7", "9">>, <<"s", "h", "i", "f", "t", "_", "l">> }

UnrecognizedNext ==
  FirstStart \/ Startup \/ \E key \in UnrecognizedSpellings : IsValidKey(key)

\* one run of the application in which names of no key are normalized
UnrecognizedSpec == Init /\ [][UnrecognizedNext]_vars

\* a lower-cased and stripped name that is an alias, a numpad-prefixed digit or
\* operator, a function key f1-f12 or a standard key
Recognized(k) ==
  \/ k \in KeyMappingKeys
  \/ k \in NumpadSpellings
  \/ k \in { <<"f">> \o NatToStr(n) : n \in 1..12 }
  \/ k \in StandardKeySet

\* C21: _normalize_key returns "unknown" for every name that is empty, blank
\* or not recognized.
C21_UnrecognizedIsUnknown ==
  (last.op = "is_valid_key" /\ ~Recognized(Strip(Lower(last.key)))) =>
    last.normalized = Unknown


\* ------------------------------------------------------ key press claims

RevertNext ==
  \/ FirstStart
  \/ Startup
  \/ \E key \in {<<"a">>, <<"e", "s", "c">>} : SetKeySound(key, NoSound)
  \/ \E enabled \in BOOLEAN : ListenerSetEnabled(enabled)
  \/ \E key \in KeyEvents : KeyPress(key)
  \/ \E i \in 1..MaxCalls : PlaySoundBegin(i)
  \/ \E i \in 1..MaxCalls, ok \in BOOLEAN : PlaybackEnds(i, ok)

\* one run of the application in which bindings are deleted and keys pressed
RevertSpec == Init /\ [][RevertNext]_vars

\* the paths of the default sound's descriptors whose file exists
DefaultSoundPaths(lib, fs) ==
  { lib[i].path : i \in { j \in 1..Len(lib) : lib[j].id = default_sound_id /\ lib[j].path \in fs } }

\* C22: a press of a standard key that has no binding, with the listener
\* enabled and the default sound's file in the library, starts a call of
\* play_sound with a path of the default sound, which play_sound plays.
C22_DeletedBindingPlaysDefault ==
  [][(/\ last'.op = "key_press"
      /\ last'.handled
      /\ normalize_key(last'.key_name) \in StandardKeySet
      /\ ~DictHas(key_bindings, normalize_key(last'.key_name))
      /\ DefaultSoundPaths(sound_library, files) # {}) =>
       /\ Len(calls') = Len(calls) + 1
       /\ calls'[Len(calls')].path \in DefaultSoundPaths(sound_library, files)
       /\ play_sound_valid(files, calls'[Len(calls')].path)]_vars


\* C23: handling a key press changes neither the settings, the key bindings
\* and the sound library nor the three documents on disk.
C23_KeyPressReadsOnly ==
  [][last'.op = "key_press" =>
       /\ settings' = settings
       /\ key_bindings' = key_bindings
       /\ sound_library' = sound_library
       /\ settings_file' = settings_file
       /\ key_bindings_file' = key_bindings_file
       /\ sound_library_file' = sound_library_file]_vars

\* a handled press of a key that has no binding, in a table that has bindings
C23_Witness ==
  /\ last.op = "key_press"
  /\ last.handled
  /\ key_bindings # <<>>
  /\ ~DictHas(key_bindings, normalize_key(last.key_name))
  /\ calls # <<>>


\* ------------------------------------------------------ stop_sound claims

\* C30: while a playback started by a key press is running (stop_sound is
\* never called in these runs), is_playing is True.
C30_FlagAccurate ==
  (\E i \in 1..Len(calls) : calls[i].thread = "background" /\ calls[i].playback = "running")
    => is_playing


StopNext ==
  \/ FirstStart
  \/ Startup
  \/ ListenerSetEnabled(TRUE)
  \/ \E key \in {[t |-> "KeyCode", char |-> <<"a">>, vk |-> 65]} : KeyPress(key)
  \/ \E sound_path \in {UserMp3} : UiPlaySound(sound_path)
  \/ \E i \in 1..MaxCalls : PlaySoundBegin(i)
  \/ \E i \in 1..MaxCalls, ok \in BOOLEAN : PlaybackEnds(i, ok)
  \/ StopSound

\* one run of the application with playback and stop_sound
StopSpec == Init /\ [][StopNext]_vars

\* C24: stop_sound sets is_playing to False and leaves every call of
\* play_sound as it is, the playbacks that are running among them; and a call
\* of play_sound with a valid path starts its playback, whether or not
\* stop_sound was called before.
C24_StopOnlySetsFlag ==
  [][/\ last'.op = "stop_sound" => (is_playing' = FALSE /\ calls' = calls)
     /\ \A i \in 1..Len(calls) :
          (/\ last'.op = "play_sound_begin"
           /\ calls[i].pc = "called"
           /\ calls'[i].pc # "called"
           /\ play_sound_valid(files, calls[i].path)) =>
            (calls'[i].playback = "running" /\ is_playing')]_vars

\* stop_sound has just been called with a playback running, which still runs
C24_Witness ==
  /\ last.op = "stop_sound"
  /\ last.was_playing
  /\ \E i \in 1..Len(calls) : calls[i].playback = "running"


\* ---------------------------------------------------------- library claims

\* C25: remove_sound_from_library(x) deletes the first entry whose id or path
\* is x, keeps the other entries in their order and returns True; with no such
\* entry it returns False and changes neither the library, the bindings, the
\* documents on disk nor the files.
C25_RemoveFirstMatch ==
  [][last'.op = "remove_sound_from_library" =>
       LET x == last'.arg
           hit(i) == sound_library[i].id = x \/ sound_library[i].path = x
       IN  IF \E i \in 1..Len(sound_library) : hit(i)
           THEN /\ last'.ret = TRUE
                /\ Len(sound_library') = Len(sound_library) - 1
                /\ \E i \in 1..Len(sound_library) :
                     /\ hit(i)
                     /\ \A j \in 1..(i - 1) : ~hit(j) /\ sound_library'[j] = sound_library[j]
                     /\ \A j \in i..Len(sound_library') :
                          sound_library'[j] = sound_library[j + 1]
           ELSE /\ last'.ret = FALSE
                /\ sound_library' = sound_library
                /\ key_bindings' = key_bindings
                /\ files' = files
                /\ settings_file' = settings_file
                /\ key_bindings_file' = key_bindings_file
                /\ sound_library_file' = sound_library_file]_vars

\* the first of two entries with the id was removed: the second is still there
C25_Witness ==
  /\ last.op = "remove_sound_from_library"
  /\ last.ret
  /\ \E i \in 1..Len(sound_library) :
       sound_library[i].id = last.arg /\ sound_library[i] # last.removed

\* remove_sound_from_library returned False with sounds in the library
C25_WitnessNoMatch ==
  /\ last.op = "remove_sound_from_library"
  /\ ~last.ret
  /\ sound_library # <<>>


\* --------------------------------------------- first-run selection claims

\* a file of the user with the name of /u/a.mp3, in another directory
OtherDirMp3 == <<"/", "v", "/", "a", ".", "m", "p", "3">>

\* the user has a sound file more when the application is first started
ExternalCreate(p) ==
  /\ pc = "off"
  /\ starts = 0
  /\ p \notin files
  /\ files' = files \cup {p}
  /\ last' = [op |-> "external_create", arg |-> p]
  /\ UNCHANGED <<pc, starts, steps, settings_file, key_bindings_file, sound_library_file,
                 settings, key_bindings, sound_library, default_sound_path, disk, audio>>

FirstSoundNext ==
  \/ ExternalCreate(OtherDirMp3)
  \/ ConfigInit
  \/ Startup
  \/ Quit
  \/ \E file_path \in {UserMp3, UserUpperMp3, OtherDirMp3} : AddCustomSoundPath(file_path)
  \/ ExternalDelete(UserMp3)

\* an installation without resource files: sounds are added in the first run
\* and the keys are bound at the second start
FirstSoundSpec == SettingsInit /\ [][FirstSoundNext]_vars

\* the position of the earliest descriptor that has a filename and a path and
\* whose file exists
FirstUsable(lib, fs) ==
  CHOOSE i \in 1..Len(lib) :
    /\ Usable(lib[i], fs)
    /\ \A j \in 1..(i - 1) : ~Usable(lib[j], fs)

\* C26: when KeyBindingManager is constructed over an empty binding table,
\* every standard key is bound to the path of the earliest descriptor of the
\* library whose file exists.
C26_FirstInsertedSound ==
  (/\ pc = "bindings"
   /\ last.before = <<>>
   /\ \E i \in 1..Len(sound_library) : Usable(sound_library[i], files)) =>
    \A k \in StandardKeySet :
      get_key_sound(key_bindings, k) = sound_library[FirstUsable(sound_library, files)].path


\* --------------------------------------------------- emitted key claims

\* the names of the Key members in the listener's table key_names, f1-f12
\* apart
ListenerKeyNames ==
  { <<"s", "p", "a", "c", "e">>,
    <<"e", "n", "t", "e", "r">>,
    <<"t", "a", "b">>,
    <<"b", "a", "c", "k", "s", "p", "a", "c", "e">>,
    <<"d", "e", "l", "e", "t", "e">>,
    <<"e", "s", "c">>,
    <<"u", "p">>,
    <<"d", "o", "w", "n">>,
    <<"l", "e", "f", "t">>,
    <<"r", "i", "g", "h", "t">>,
    <<"h", "o", "m", "e">>,
    <<"e", "n", "d">>,
    <<"p", "a", "g", "e", "_", "u", "p">>,
    <<"p", "a", "g", "e", "_", "d", "o", "w", "n">>,
    <<"c", "a", "p", "s", "_", "l", "o", "c", "k">>,
    <<"s", "h", "i", "f", "t">>,
    <<"s", "h", "i", "f", "t", "_", "r">>,
    <<"c", "t", "r", "l">>,
    <<"c", "t", "r", "l", "_", "r">>,
    <<"a", "l", "t">>,
    <<"a", "l", "t", "_", "r">>,
    <<"c", "m", "d">>,
    <<"c", "m", "d", "_", "r">> }

\* the keys of the table, and letters and digits as pynput reports them
TableKeyEvents ==
  { [t |-> "Key", name |-> n] :
      n \in ListenerKeyNames \cup { <<"f">> \o NatToStr(i) : i \in 1..12 } }
  \cup { [t |-> "KeyCode", char |-> <<c>>, vk |-> 0] : c \in {"a", "Z", "q", "0", "7"} }

EmittedNext ==
  \/ FirstStart
  \/ Startup
  \/ \E key \in TableKeyEvents : IsValidKey(listener_normalize_key(key))

\* one run of the application in which the names the listener emits are
\* normalized by the key binding manager
EmittedSpec == Init /\ [][EmittedNext]_vars

\* C27: the name the listener emits for a key of its table, a letter or a
\* digit is normalized by the key binding manager to a standard key.
C27_EmittedKeysAreStandard ==
  last.op = "is_valid_key" => (last.normalized \in StandardKeySet /\ last.ret)


\* C28: while the listener's enabled flag is False a key press starts no call
\* of play_sound and hands nothing to the callback; while it is True a key
\* press hands the key's name to the callback once and starts one call of
\* play_sound on a thread of its own.
C28_EnabledGatesKeyPress ==
  [][last'.op = "key_press" =>
       IF ~listener_enabled
       THEN /\ calls' = calls
            /\ last'.callback = <<>>
       ELSE /\ last'.callback = <<listener_normalize_key(last'.key)>>
            /\ Len(calls') = Len(calls) + 1
            /\ calls'[Len(calls')].thread = "background"
            /\ \A i \in 1..Len(calls) : calls'[i] = calls[i]]_vars

\* the flag is False from the start
C28_InitiallyDisabled == (pc = "running" /\ steps = 0) => ~listener_enabled

\* a key press was ignored after set_enabled(False) had followed
\* set_enabled(True)
C28_Witness ==
  /\ last.op = "key_press"
  /\ ~last.handled
  /\ steps = 2
  /\ ~listener_enabled
  /\ calls = <<>>

\* a key press was handled after set_enabled(True)
C28_WitnessEnabled ==
  /\ last.op = "key_press"
  /\ last.handled
  /\ listener_enabled
  /\ Len(calls) = 1


\* ----------------------------------------------- listener lifecycle claims

ListenerNext ==
  \/ FirstStart
  \/ Startup
  \/ \E outcome \in StartOutcomes : StartListening(outcome)
  \/ \E outcome \in StopOutcomes : StopListening(outcome)

\* one run of the application in which the hook is started and stopped
ListenerSpec == Init /\ [][ListenerNext]_vars

\* C29: is_listening is True only while a Listener is held, at most one hook
\* is active, start_listening while listening and stop_listening while not
\* listening change nothing, and after a stop_listening that was called while
\* listening and met no exception is_listening is False and no Listener is
\* held.
C29_ListenerLifecycle ==
  [][/\ is_listening' => listener' # "None"
     /\ hooks' <= 1
     /\ (last'.op = "start_listening" /\ is_listening) => UNCHANGED hook
     /\ (last'.op = "stop_listening" /\ ~is_listening) => UNCHANGED hook
     /\ (last'.op = "stop_listening" /\ is_listening /\ last'.outcome = "ok") =>
          (~is_listening' /\ listener' = "None" /\ hooks' = 0)]_vars

\* start_listening was called while the hook was running, after an earlier
\* call had failed
C29_Witness ==
  /\ last.op = "start_listening"
  /\ ~last.raised
  /\ steps >= 3
  /\ is_listening
  /\ hooks = 1


====
